---- MODULE Spec2Model ----
(***************************************************************************)
(* The wallet sync manager of breadwallet-core (BRSyncManager.c): the      *)
(* mode dispatcher, the client (BRD) sync manager with its scan state, and *)
(* the peer (P2P) sync manager's callbacks.                                *)
(*                                                                         *)
(* A thread calling the manager is a process with a position (pc).  Every  *)
(* region of code between pthread_mutex_lock and pthread_mutex_unlock is   *)
(* one step; what a function does after unlocking (a client callback, an   *)
(* event sent without the lock, the next function it calls) is a later     *)
(* step of the same thread, so other threads interleave exactly where the  *)
(* code lets them.                                                         *)
(*                                                                         *)
(* Numbers.  TLC's integers are 32 bit, so the C widths are scaled:        *)
(* uint64_t block heights wrap at UINT64_SPAN, uint32_t heights at         *)
(* UINT32_SPAN (smaller, so that the casts to uint32_t truncate), and      *)
(* 32 bit unix times are counted in units of TIME_UNIT = 128 seconds, in   *)
(* which both one week and 2^32 seconds are whole numbers.                 *)
(***************************************************************************)
EXTENDS Integers, Sequences, FiniteSets, Bags, TLC

\* ------------------------------------------------------------------------
\* Program constants
\* ------------------------------------------------------------------------

TIME_UNIT == 128

ONE_WEEK_IN_SECONDS == 7 * 24 * 60 * 60

CONFIRMATION_BLOCK_COUNT == 6

BWM_MINUTES_PER_BLOCK == 10

BWM_BRD_SYNC_DAYS_OFFSET == 1

BWM_BRD_SYNC_START_BLOCK_OFFSET == (BWM_BRD_SYNC_DAYS_OFFSET * 24 * 60) \div BWM_MINUTES_PER_BLOCK

\* uint64_t, scaled: heights live in 0 .. UINT64_SPAN - 1
UINT64_SPAN == 1048576

\* uint32_t, scaled: heights of transactions live in 0 .. UINT32_SPAN - 1
UINT32_SPAN == 4096

\* 2^32 seconds in units of TIME_UNIT
TIME32_SPAN == 33554432

\* TX_UNCONFIRMED is INT32_MAX: the largest positive value of the 32 bit width
TX_UNCONFIRMED == (UINT32_SPAN \div 2) - 1

SEQUENCE_GAP_LIMIT_EXTERNAL == 2

SEQUENCE_GAP_LIMIT_INTERNAL == 1

MAX(a, b) == IF a > b THEN a ELSE b

MIN(a, b) == IF a < b THEN a ELSE b

\* ------------------------------------------------------------------------
\* Bounds and input sets of the model
\* ------------------------------------------------------------------------

\* the request id generator stops handing out ids at MaxRid
MaxRid == 4

\* the threads of the host that call one manager
Threads == {"a", "b"}

\* the requests the host sends through the blockchain-DB API client
MaxRequests == 3

\* the chain parameter table: hardcoded checkpoints, ascending
CheckPoints ==
    << [height |-> 0,   timestamp |-> 10000],
       [height |-> 100, timestamp |-> 20000],
       [height |-> 500, timestamp |-> 30000] >>

\* earliestKeyTime given to the constructor (units of TIME_UNIT)
EarliestKeyTimes == {25000}

\* blockHeight given to the constructor
InitialBlockHeights == {150}

\* heights the indexer or the peer manager may report
ReportedHeights == {244, 1000}

\* the items the indexer may announce: a transaction, or 0 for bytes that do
\* not parse or are not signed, with the block it is in
AnnouncedItems ==
    { [tx |-> 1, blockHeight |-> 50,  timestamp |-> 15000],
      [tx |-> 1, blockHeight |-> 200, timestamp |-> 22000],
      [tx |-> 2, blockHeight |-> 200, timestamp |-> 22000],
      [tx |-> 0, blockHeight |-> 200, timestamp |-> 22000] }

\* the items announced while two threads are interleaved
AnnouncedItemsConcurrent == { i \in AnnouncedItems : i.tx \in {0, 2} }

\* ------------------------------------------------------------------------
\* Collaborators: chain parameters and wallet
\* ------------------------------------------------------------------------

NoCheckPoint == [height |-> -1, timestamp |-> -1]

\* the table is searched from its end for the first checkpoint strictly
\* before the timestamp
RECURSIVE CheckpointBeforeFrom(_, _)
CheckpointBeforeFrom(index, timestamp) ==
    IF index = 0 THEN NoCheckPoint
    ELSE IF CheckPoints[index].timestamp < timestamp THEN CheckPoints[index]
    ELSE CheckpointBeforeFrom(index - 1, timestamp)

BRChainParamsGetCheckpointBefore(timestamp) ==
    CheckpointBeforeFrom(Len(CheckPoints), timestamp)

RECURSIVE CheckpointBeforeBlockNumberFrom(_, _)
CheckpointBeforeBlockNumberFrom(index, blockNumber) ==
    IF index = 0 THEN NoCheckPoint
    ELSE IF CheckPoints[index].height < blockNumber THEN CheckPoints[index]
    ELSE CheckpointBeforeBlockNumberFrom(index - 1, blockNumber)

\* blockNumber arrives as uint32_t
BRChainParamsGetCheckpointBeforeBlockNumber(blockNumber) ==
    CheckpointBeforeBlockNumberFrom(Len(CheckPoints), blockNumber)

\* The transactions the indexer can announce.  What a transaction is (its
\* hash, whether the wallet sent funds in it, whether the wallet holds it
\* valid, which wallet address it uses) is fixed by its bytes; the block it
\* is in comes with the announcement.
\*   1: a send, valid, change goes to the first internal address
\*   2: a receive on the first external address
TxHashes == {1, 2}

BRWalletAmountSentByTx(hash) == IF hash = 1 THEN 1000 ELSE 0

BRWalletTransactionIsValid(hash) == hash \in TxHashes

\* addresses are <<chain, index, form>>
BR_ADDRESS_NONE == <<"none", 0, "none">>

TxUsesAddress(hash) ==
    CASE hash = 1 -> {<<"internal", 0>>}
      [] hash = 2 -> {<<"external", 0>>}
      [] OTHER    -> {}

\* the wallet is its transaction book: hash -> [blockHeight, timestamp]

BRWalletTransactionForHash(w, hash) == hash \in DOMAIN w

\* number of leading addresses of a chain that a wallet transaction uses
RECURSIVE UsedCount(_, _, _)
UsedCount(w, chain, index) ==
    IF \E h \in DOMAIN w : <<chain, index>> \in TxUsesAddress(h)
    THEN UsedCount(w, chain, index + 1)
    ELSE index

GapLimit(chain) ==
    IF chain = "external" THEN SEQUENCE_GAP_LIMIT_EXTERNAL ELSE SEQUENCE_GAP_LIMIT_INTERNAL

\* BRWalletUnusedAddrs (wallet, &addr, 1, chain): the first unused address
BRWalletUnusedAddrs(w, chain) == <<chain, UsedCount(w, chain, 0), "native">>

\* BRWalletAllAddrs: the wallet keeps a gap limit of unused addresses derived
\* behind the last used one, on both chains
BRWalletAllAddrs(w) ==
    UNION { { <<chain, i, "native">> :
                i \in 0 .. (UsedCount(w, chain, 0) + GapLimit(chain) - 1) } :
            chain \in {"external", "internal"} }

BRWalletAddressToLegacy(a) == <<a[1], a[2], "legacy">>

\* the wallet's addresses followed by their legacy forms
GetWalletAddresses(w) ==
    BRWalletAllAddrs(w) \cup { BRWalletAddressToLegacy(a) : a \in BRWalletAllAddrs(w) }

\* BRWalletRegisterTransaction: adds the transaction unless the wallet holds it
BRWalletRegisterTransaction(w, hash, blockHeight, timestamp) ==
    IF hash \in DOMAIN w THEN w
    ELSE [h \in (DOMAIN w) \cup {hash} |->
            IF h = hash THEN [blockHeight |-> blockHeight, timestamp |-> timestamp]
            ELSE w[h]]

\* BRWalletUpdateTransactions: sets the block of a transaction the wallet holds
BRWalletUpdateTransactions(w, hash, blockHeight, timestamp) ==
    IF hash \in DOMAIN w
    THEN [w EXCEPT ![hash] = [blockHeight |-> blockHeight, timestamp |-> timestamp]]
    ELSE w

\* ------------------------------------------------------------------------
\* _getLastConfirmedSendTxHeight
\* ------------------------------------------------------------------------

IsConfirmedSend(w, hash, lastBlockHeight) ==
    /\ BRWalletTransactionIsValid(hash)
    /\ 0 # BRWalletAmountSentByTx(hash)
    /\ TX_UNCONFIRMED # w[hash].blockHeight
    /\ w[hash].blockHeight < (lastBlockHeight - CONFIRMATION_BLOCK_COUNT)

\* the loop keeps the greatest height it meets, starting from 0
MaxOf(S) ==
    IF S = {} THEN 0
    ELSE CHOOSE y \in S : \A z \in S : z <= y

\* lastBlockHeight arrives as uint32_t
GetLastConfirmedSendTxHeight(w, lastBlockHeight) ==
    IF lastBlockHeight >= CONFIRMATION_BLOCK_COUNT /\ DOMAIN w # {}
    THEN MaxOf({ w[h].blockHeight : h \in { x \in DOMAIN w : IsConfirmedSend(w, x, lastBlockHeight) } })
    ELSE 0

\* ------------------------------------------------------------------------
\* State
\* ------------------------------------------------------------------------

VARIABLES
    mgr,      \* the manager: BRClientSyncManagerStruct or BRPeerSyncManagerStruct
    wallet,   \* the wallet's transaction book
    th,       \* the threads inside a function of the manager: a bag of their
              \* positions and locals (threads differ in nothing else)
    events,   \* the events the last step delivered to the event callback
    calls,    \* the client callbacks the last step invoked
    sink,     \* what the event callback has seen so far
    indexer,  \* what the client callbacks have seen so far
    nthreads, \* how many threads the host runs against the manager
    bdb       \* the blockchain-DB API client: its requests and what their
              \* completion handlers were called with

vars == <<mgr, wallet, th, events, calls, sink, indexer, nthreads, bdb>>

SYNC_MODE_BRD_ONLY == "BRD_ONLY"

SYNC_MODE_P2P_ONLY == "P2P_ONLY"

\* BRSyncManagerEvent; locked tells whether the sending thread held the
\* manager's lock while the callback ran
Event(kind, value, tx, locked) ==
    [kind |-> kind, value |-> value, tx |-> tx, locked |-> locked]

\* a call of clientCallbacks.func*, and the function that makes it
ClientCall(func, origin, rid, beg, end, addrs, tx) ==
    [func |-> func, origin |-> origin, rid |-> rid,
     beg |-> beg, end |-> end, addrs |-> addrs, tx |-> tx]

\* fault: the wipe leaves the full scan mark set
ScanStateWipe_LeavesFullScan ==
    [ requestId           |-> 0,
      lastExternalAddress |-> BR_ADDRESS_NONE,
      lastInternalAddress |-> BR_ADDRESS_NONE,
      knownAddresses      |-> {},
      begBlockNumber      |-> 0,
      endBlockNumber      |-> 0,
      isFullScan          |-> 1 ]

\* memset (scanState, 0, sizeof(*scanState))
BRClientSyncManagerScanStateWipe ==
    [ requestId           |-> 0,
      lastExternalAddress |-> BR_ADDRESS_NONE,
      lastInternalAddress |-> BR_ADDRESS_NONE,
      knownAddresses      |-> {},
      begBlockNumber      |-> 0,
      endBlockNumber      |-> 0,
      isFullScan          |-> 0 ]

\* fault: a scan is never seen as in progress
ScanStateIsInProgress_Never(scanState) == FALSE

BRClientSyncManagerScanStateIsInProgress(scanState) == 0 # scanState.requestId

BRClientSyncManagerScanStateIsFullScan(scanState) == scanState.isFullScan

\* fault: the accessor reads the field of the accessor next to it
ScanStateGetRequestId_WrongField(scanState) == scanState.isFullScan

BRClientSyncManagerScanStateGetRequestId(scanState) == scanState.requestId

\* fault: the end of the window, which is exclusive, taken as synced
GetSyncedBlockNumber_OffByOne(scanState) ==
    scanState.endBlockNumber % UINT64_SPAN

BRClientSyncManagerScanStateGetSyncedBlockNumber(scanState) ==
    (scanState.endBlockNumber - 1) % UINT64_SPAN

ThreadIdle ==
    [pc |-> "idle", rid |-> 0, beg |-> 0, end |-> 0, addrs |-> {}, tx |-> 0, value |-> 0]

ThreadAt(pc) == [ThreadIdle EXCEPT !.pc = pc]

\* the event callback's view of the stream: the last connection event, whether
\* a SyncStarted is outstanding, and the last height announced
RECURSIVE SinkAfter(_, _)
SinkAfter(s, evs) ==
    IF evs = <<>> THEN s
    ELSE LET e == Head(evs)
             s2 == CASE e.kind \in {"Connected", "Disconnected"} -> [s EXCEPT !.conn = e.kind]
                     [] e.kind = "SyncStarted"        -> [s EXCEPT !.syncing = 1]
                     [] e.kind = "SyncStopped"        -> [s EXCEPT !.syncing = 0]
                     [] e.kind = "BlockHeightUpdated" -> [s EXCEPT !.height = e.value]
                     [] OTHER -> s
         IN  SinkAfter(s2, Tail(evs))

\* the indexer's view: the request id of the last call it received, and the
\* request ids of the requests it received (a gap-limit re-issue continues a
\* request, it is not a request of its own)
RECURSIVE IndexerAfter(_, _)
IndexerAfter(x, cs) ==
    IF cs = <<>> THEN x
    ELSE IndexerAfter(
            [lastRid |-> Head(cs).rid,
             rids    |-> IF Head(cs).origin = "AnnounceGetTransactionsDone"
                         THEN x.rids
                         ELSE x.rids \cup {Head(cs).rid}],
            Tail(cs))

\* ------------------------------------------------------------------------
\* Construction
\* ------------------------------------------------------------------------

\* earliestKeyTime - ONE_WEEK_IN_SECONDS in uint32_t
KeyTimeMinusOneWeek(earliestKeyTime) ==
    (earliestKeyTime - (ONE_WEEK_IN_SECONDS \div TIME_UNIT)) % TIME32_SPAN

BRClientSyncManagerNew(earliestKeyTime, blockHeight) ==
    LET earliestCheckPoint == BRChainParamsGetCheckpointBefore(KeyTimeMinusOneWeek(earliestKeyTime))
    IN  [ mode               |-> SYNC_MODE_BRD_ONLY,
          initBlockHeight    |-> MIN(earliestCheckPoint.height, blockHeight),
          networkBlockHeight |-> MAX(earliestCheckPoint.height, blockHeight),
          syncedBlockHeight  |-> MIN(earliestCheckPoint.height, blockHeight),
          isConnected        |-> 0,
          isFullScan         |-> 0,
          requestIdGenerator |-> 0,
          scanState          |-> BRClientSyncManagerScanStateWipe,
          aborted            |-> FALSE ]

BRPeerSyncManagerNew(earliestKeyTime, blockHeight) ==
    LET earliestCheckPoint == BRChainParamsGetCheckpointBefore(KeyTimeMinusOneWeek(earliestKeyTime))
    IN  [ mode               |-> SYNC_MODE_P2P_ONLY,
          initBlockHeight    |-> 0,
          networkBlockHeight |-> MAX(earliestCheckPoint.height, blockHeight),
          syncedBlockHeight  |-> 0,
          isConnected        |-> 0,
          isFullScan         |-> 0,
          requestIdGenerator |-> 0,
          scanState          |-> BRClientSyncManagerScanStateWipe,
          aborted            |-> FALSE ]

\* the constructors assert that a checkpoint was found
ConstructorInputs ==
    { in \in EarliestKeyTimes \X InitialBlockHeights :
        BRChainParamsGetCheckpointBefore(KeyTimeMinusOneWeek(in[1])) # NoCheckPoint }

\* BdbApiClient: no request has been sent
BdbApiClientNew == [requests |-> <<>>]

EmptyWallet == [h \in {} |-> [blockHeight |-> 0, timestamp |-> 0]]

InitRest ==
    /\ wallet = EmptyWallet
    /\ th = EmptyBag
    /\ events = <<>>
    /\ calls = <<>>
    /\ sink = [conn |-> "None", syncing |-> 0, height |-> -1]
    /\ indexer = [lastRid |-> 0, rids |-> {}]
    /\ bdb = BdbApiClientNew

\* a client manager whose functions are called one after the other
InitClient ==
    /\ \E in \in ConstructorInputs : mgr = BRClientSyncManagerNew(in[1], in[2])
    /\ nthreads = 1
    /\ InitRest

\* a client manager called by all the threads of the host
InitClientConcurrent ==
    /\ \E in \in ConstructorInputs : mgr = BRClientSyncManagerNew(in[1], in[2])
    /\ nthreads = Cardinality(Threads)
    /\ InitRest

InitPeer ==
    /\ \E in \in ConstructorInputs : mgr = BRPeerSyncManagerNew(in[1], in[2])
    /\ nthreads = Cardinality(Threads)
    /\ InitRest

\* BRSyncManagerNewForMode
Init == InitClientConcurrent \/ InitPeer

\* the bag of threads after one of them moves from t to thread2; idle
\* threads are not kept
ThreadsAfter(t, thread2) ==
    LET rest == IF t = ThreadIdle THEN th ELSE th (-) SetToBag({t})
    IN  IF thread2 = ThreadIdle THEN rest ELSE rest (+) SetToBag({thread2})

\* a thread t that can take a step: one inside a function, or an idle one
\* entering a function
CanStep(t) ==
    IF t = ThreadIdle THEN BagCardinality(th) < nthreads ELSE BagIn(t, th)

ThreadStates == BagToSet(th) \cup {ThreadIdle}

\* one step of thread t: the manager, the wallet and the thread after it, the
\* events it delivered and the client callbacks it invoked
Step(t, mgr2, wallet2, thread2, evs, cs) ==
    /\ mgr' = mgr2
    /\ wallet' = wallet2
    /\ th' = ThreadsAfter(t, thread2)
    /\ events' = evs
    /\ calls' = cs
    /\ sink' = SinkAfter(sink, evs)
    /\ indexer' = IndexerAfter(indexer, cs)
    /\ UNCHANGED <<nthreads, bdb>>

InClient(t, pc) ==
    /\ mgr.mode = SYNC_MODE_BRD_ONLY
    /\ ~mgr.aborted
    /\ CanStep(t)
    /\ t.pc = pc

\* ------------------------------------------------------------------------
\* Client sync manager
\* ------------------------------------------------------------------------

\* fault: the generator is read but not advanced
GenerateRid_NoIncrement(m) == m.requestIdGenerator

\* ++manager->requestIdGenerator
BRClientSyncManagerGenerateRid(m) == m.requestIdGenerator + 1

\* the generator can still hand out an id
CanGenerateRid == mgr.requestIdGenerator < MaxRid

ScanWindowEnd(syncedBlockHeight, networkBlockHeight) ==
    (MAX(syncedBlockHeight, networkBlockHeight) + 1) % UINT64_SPAN

\* fault: the window begins the offset before the synced height
ScanWindowBeg_BehindSynced(syncedBlockHeight, endBlockNumber) ==
    IF syncedBlockHeight >= BWM_BRD_SYNC_START_BLOCK_OFFSET
    THEN syncedBlockHeight - BWM_BRD_SYNC_START_BLOCK_OFFSET
    ELSE 0

\* fault: the window begins the offset before its end, whatever was synced
ScanWindowBeg_IgnoresSynced(syncedBlockHeight, endBlockNumber) ==
    IF endBlockNumber >= BWM_BRD_SYNC_START_BLOCK_OFFSET
    THEN endBlockNumber - BWM_BRD_SYNC_START_BLOCK_OFFSET
    ELSE 0

ScanWindowBeg(syncedBlockHeight, endBlockNumber) ==
    MIN(syncedBlockHeight,
        IF endBlockNumber >= BWM_BRD_SYNC_START_BLOCK_OFFSET
        THEN endBlockNumber - BWM_BRD_SYNC_START_BLOCK_OFFSET
        ELSE 0)

\* fault: a window as wide as the offset counts as a full scan
ScanIsFull_AtLeastOffset(begBlockNumber, endBlockNumber) ==
    IF ((endBlockNumber - begBlockNumber) % UINT64_SPAN) >= BWM_BRD_SYNC_START_BLOCK_OFFSET
    THEN 1 ELSE 0

ScanIsFull(begBlockNumber, endBlockNumber) ==
    IF ((endBlockNumber - begBlockNumber) % UINT64_SPAN) > BWM_BRD_SYNC_START_BLOCK_OFFSET
    THEN 1 ELSE 0

BRClientSyncManagerScanStateInit(w, syncedBlockHeight, networkBlockHeight, rid) ==
    LET endBlockNumber == ScanWindowEnd(syncedBlockHeight, networkBlockHeight)
        begBlockNumber == ScanWindowBeg(syncedBlockHeight, endBlockNumber)
    IN  [ requestId           |-> rid,
          lastExternalAddress |-> BRWalletUnusedAddrs(w, "external"),
          lastInternalAddress |-> BRWalletUnusedAddrs(w, "internal"),
          knownAddresses      |-> GetWalletAddresses(w),
          begBlockNumber      |-> begBlockNumber,
          endBlockNumber      |-> endBlockNumber,
          isFullScan          |-> ScanIsFull(begBlockNumber, endBlockNumber) ]

\* assert (scanState->endBlockNumber > scanState->begBlockNumber)
ScanStateInitAsserts(scanState) == scanState.endBlockNumber > scanState.begBlockNumber

\* fault: only the external chain's first unused address is compared
FirstUnusedChanged_ExternalOnly(scanState, w) ==
    BRWalletUnusedAddrs(w, "external") # scanState.lastExternalAddress

\* whether the first unused addresses differ from those the scan holds
FirstUnusedChanged(scanState, w) ==
    \/ BRWalletUnusedAddrs(w, "external") # scanState.lastExternalAddress
    \/ BRWalletUnusedAddrs(w, "internal") # scanState.lastInternalAddress

\* fault: every address of the wallet is returned, held by the set or not
UpdateWalletAddressSet_ReturnsAll(addresses, w) == GetWalletAddresses(w)

\* _updateWalletAddressSet: the wallet's addresses the set does not hold
UpdateWalletAddressSet(addresses, w) == GetWalletAddresses(w) \ addresses

\* the addresses BRClientSyncManagerScanStateAdvanceAndGetNewAddresses returns
\* (none when the first unused addresses are unchanged)
NewAddresses(scanState, w) ==
    IF FirstUnusedChanged(scanState, w)
    THEN UpdateWalletAddressSet(scanState.knownAddresses, w)
    ELSE {}

\* the scan state BRClientSyncManagerScanStateAdvanceAndGetNewAddresses leaves
\* fault: the addresses found are returned but not recorded in the scan
ScanStateAdvance_RecordsNothing(scanState, w) == scanState

BRClientSyncManagerScanStateAdvance(scanState, w) ==
    IF FirstUnusedChanged(scanState, w)
    THEN [scanState EXCEPT
            !.lastExternalAddress = BRWalletUnusedAddrs(w, "external"),
            !.lastInternalAddress = BRWalletUnusedAddrs(w, "internal"),
            !.knownAddresses = scanState.knownAddresses \cup UpdateWalletAddressSet(scanState.knownAddresses, w)]
    ELSE scanState

\* fault: Connected is delivered after the lock is released
ConnectedEvent_AfterUnlock == Event("Connected", 0, 0, FALSE)

ConnectedEvent == Event("Connected", 0, 0, TRUE)

DisconnectedEvent == Event("Disconnected", 0, 0, TRUE)

SyncStartedEvent == Event("SyncStarted", 0, 0, TRUE)

SyncStoppedEvent(reason) == Event("SyncStopped", reason, 0, TRUE)

BlockHeightUpdatedEvent(height) == Event("BlockHeightUpdated", height, 0, TRUE)

\* fault: connect signals Connected whether or not it was connected
Connect_AlwaysSignals(t) ==
    /\ InClient(t, "idle")
    /\ Step(t, [mgr EXCEPT !.isConnected = 1], wallet,
            ThreadAt("updateBlockNumber"), <<ConnectedEvent>>, <<>>)

\* connect: the locked region; the thread goes on to update the block number
\* and the transactions
BRClientSyncManagerConnect(t) ==
    /\ InClient(t, "idle")
    /\ LET needEvent == mgr.isConnected = 0
       IN  Step(t, [mgr EXCEPT !.isConnected = 1], wallet,
                ThreadAt("updateBlockNumber"),
                IF needEvent THEN <<ConnectedEvent>> ELSE <<>>,
                <<>>)

\* fault: disconnect signals Disconnected before it stops the sync
Disconnect_EventsSwapped(t) ==
    /\ InClient(t, "idle")
    /\ LET needConnectionEvent == mgr.isConnected # 0
           needSyncEvent == needConnectionEvent
                            /\ BRClientSyncManagerScanStateIsFullScan(mgr.scanState) # 0
       IN  Step(t,
                IF needConnectionEvent
                THEN [mgr EXCEPT !.isConnected = 0,
                                 !.scanState = BRClientSyncManagerScanStateWipe]
                ELSE mgr,
                wallet, ThreadIdle,
                (IF needConnectionEvent THEN <<DisconnectedEvent>> ELSE <<>>)
                \o (IF needSyncEvent THEN <<SyncStoppedEvent(-1)>> ELSE <<>>),
                <<>>)

\* fault: disconnect leaves the scan state as it is
Disconnect_KeepsScanState(t) ==
    /\ InClient(t, "idle")
    /\ LET needConnectionEvent == mgr.isConnected # 0
           needSyncEvent == needConnectionEvent
                            /\ BRClientSyncManagerScanStateIsFullScan(mgr.scanState) # 0
       IN  Step(t,
                IF needConnectionEvent THEN [mgr EXCEPT !.isConnected = 0] ELSE mgr,
                wallet, ThreadIdle,
                (IF needSyncEvent THEN <<SyncStoppedEvent(-1)>> ELSE <<>>)
                \o (IF needConnectionEvent THEN <<DisconnectedEvent>> ELSE <<>>),
                <<>>)

\* fault: disconnect signals the loss of the connection but leaves the
\* manager connected
Disconnect_StaysConnected(t) ==
    /\ InClient(t, "idle")
    /\ LET needConnectionEvent == mgr.isConnected # 0
           needSyncEvent == needConnectionEvent
                            /\ BRClientSyncManagerScanStateIsFullScan(mgr.scanState) # 0
       IN  Step(t,
                IF needConnectionEvent
                THEN [mgr EXCEPT !.scanState = BRClientSyncManagerScanStateWipe]
                ELSE mgr,
                wallet, ThreadIdle,
                (IF needSyncEvent THEN <<SyncStoppedEvent(-1)>> ELSE <<>>)
                \o (IF needConnectionEvent THEN <<DisconnectedEvent>> ELSE <<>>),
                <<>>)

BRClientSyncManagerDisconnect(t) ==
    /\ InClient(t, "idle")
    /\ LET needConnectionEvent == mgr.isConnected # 0
           needSyncEvent == needConnectionEvent
                            /\ BRClientSyncManagerScanStateIsFullScan(mgr.scanState) # 0
       IN  Step(t,
                IF needConnectionEvent
                THEN [mgr EXCEPT !.isConnected = 0,
                                 !.scanState = BRClientSyncManagerScanStateWipe]
                ELSE mgr,
                wallet, ThreadIdle,
                (IF needSyncEvent THEN <<SyncStoppedEvent(-1)>> ELSE <<>>)
                \o (IF needConnectionEvent THEN <<DisconnectedEvent>> ELSE <<>>),
                <<>>)

SyncDepths == {"LOW", "MEDIUM", "HIGH"}

\* fault: the low depth starts again from the initial height, as the high
\* depth does
DepthSyncedBlockHeight_LowIsHigh(m, w, depth) ==
    CASE depth = "MEDIUM" ->
            LET checkpoint == BRChainParamsGetCheckpointBeforeBlockNumber(m.networkBlockHeight % UINT32_SPAN)
            IN  IF checkpoint = NoCheckPoint THEN m.initBlockHeight ELSE checkpoint.height
      [] OTHER -> m.initBlockHeight

\* the height a scan to the depth starts again from; the wallet's and the
\* chain parameters' functions take the network height as uint32_t
DepthSyncedBlockHeight(m, w, depth) ==
    CASE depth = "LOW" ->
            LET scanHeight == GetLastConfirmedSendTxHeight(w, m.networkBlockHeight % UINT32_SPAN)
            IN  IF 0 = scanHeight THEN m.initBlockHeight ELSE scanHeight
      [] depth = "MEDIUM" ->
            LET checkpoint == BRChainParamsGetCheckpointBeforeBlockNumber(m.networkBlockHeight % UINT32_SPAN)
            IN  IF checkpoint = NoCheckPoint THEN m.initBlockHeight ELSE checkpoint.height
      [] OTHER -> m.initBlockHeight

\* fault: the scan is cancelled without the connection being signalled as
\* lost and made again
ScanToDepth_NoReconnectEvents(t, depth) ==
    /\ InClient(t, "idle")
    /\ LET needConnectionEvent == mgr.isConnected # 0
           needSyncEvent == needConnectionEvent
                            /\ BRClientSyncManagerScanStateIsFullScan(mgr.scanState) # 0
       IN  Step(t,
                IF needConnectionEvent
                THEN [mgr EXCEPT !.scanState = BRClientSyncManagerScanStateWipe,
                                 !.syncedBlockHeight = DepthSyncedBlockHeight(mgr, wallet, depth)]
                ELSE mgr,
                wallet, ThreadAt("updateBlockNumber"),
                IF needSyncEvent THEN <<SyncStoppedEvent(-1)>> ELSE <<>>,
                <<>>)

BRClientSyncManagerScanToDepth(t, depth) ==
    /\ InClient(t, "idle")
    /\ LET needConnectionEvent == mgr.isConnected # 0
           needSyncEvent == needConnectionEvent
                            /\ BRClientSyncManagerScanStateIsFullScan(mgr.scanState) # 0
       IN  Step(t,
                IF needConnectionEvent
                THEN [mgr EXCEPT !.scanState = BRClientSyncManagerScanStateWipe,
                                 !.syncedBlockHeight = DepthSyncedBlockHeight(mgr, wallet, depth)]
                ELSE mgr,
                wallet, ThreadAt("updateBlockNumber"),
                (IF needSyncEvent THEN <<SyncStoppedEvent(-1)>> ELSE <<>>)
                \o (IF needConnectionEvent THEN <<DisconnectedEvent, ConnectedEvent>> ELSE <<>>),
                <<>>)

\* BRClientSyncManagerScan
BRClientSyncManagerScan(t) == BRClientSyncManagerScanToDepth(t, "HIGH")

\* the locked region of BRClientSyncManagerUpdateBlockNumber
UpdateBlockNumberLocked(t) ==
    LET needClientCall == mgr.isConnected # 0
    IN  IF needClientCall
        THEN /\ CanGenerateRid
             /\ Step(t, [mgr EXCEPT !.requestIdGenerator = BRClientSyncManagerGenerateRid(mgr)],
                     wallet,
                     [ThreadAt("getBlockNumber") EXCEPT !.rid = BRClientSyncManagerGenerateRid(mgr)],
                     <<>>, <<>>)
        ELSE Step(t, mgr, wallet, ThreadAt("updateTransactions"), <<>>, <<>>)

BRClientSyncManagerUpdateBlockNumber(t) ==
    /\ InClient(t, "updateBlockNumber")
    /\ UpdateBlockNumberLocked(t)

\* tickTock is updateBlockNumber followed by updateTransactions
BRClientSyncManagerTickTock(t) ==
    /\ InClient(t, "idle")
    /\ UpdateBlockNumberLocked(t)

\* funcGetBlockNumber, called after the lock is released
CallGetBlockNumber(t) ==
    /\ InClient(t, "getBlockNumber")
    /\ Step(t, mgr, wallet, ThreadAt("updateTransactions"), <<>>,
            << ClientCall("getBlockNumber", "UpdateBlockNumber", t.rid, 0, 0, {}, 0) >>)

BRClientSyncManagerUpdateTransactions(t) ==
    /\ InClient(t, "updateTransactions")
    /\ IF ~BRClientSyncManagerScanStateIsInProgress(mgr.scanState) /\ mgr.isConnected # 0
       THEN /\ CanGenerateRid
            /\ LET rid == BRClientSyncManagerGenerateRid(mgr)
                   scanState == BRClientSyncManagerScanStateInit(
                                    wallet, mgr.syncedBlockHeight, mgr.networkBlockHeight, rid)
               IN  IF ScanStateInitAsserts(scanState)
                   THEN Step(t, [mgr EXCEPT !.requestIdGenerator = rid, !.scanState = scanState],
                             wallet,
                             [ThreadAt("getTransactions") EXCEPT
                                 !.rid = rid,
                                 !.beg = scanState.begBlockNumber,
                                 !.end = scanState.endBlockNumber,
                                 !.addrs = scanState.knownAddresses],
                             IF BRClientSyncManagerScanStateIsFullScan(scanState) # 0
                             THEN <<SyncStartedEvent>> ELSE <<>>,
                             <<>>)
                   ELSE \* the assertion fails: the process is aborted, or, in
                        \* a build without assertions, the scan goes on with
                        \* the window as computed
                        \/ Step(t, [mgr EXCEPT !.requestIdGenerator = rid, !.aborted = TRUE],
                                wallet, ThreadIdle, <<>>, <<>>)
                        \/ Step(t, [mgr EXCEPT !.requestIdGenerator = rid, !.scanState = scanState],
                                wallet,
                                [ThreadAt("getTransactions") EXCEPT
                                    !.rid = rid,
                                    !.beg = scanState.begBlockNumber,
                                    !.end = scanState.endBlockNumber,
                                    !.addrs = scanState.knownAddresses],
                                IF BRClientSyncManagerScanStateIsFullScan(scanState) # 0
                                THEN <<SyncStartedEvent>> ELSE <<>>,
                                <<>>)
       ELSE Step(t, mgr, wallet, ThreadIdle, <<>>, <<>>)

\* funcGetTransactions, called after the lock is released; value tells which
\* function calls
\* fault: the call is made with what the scan state holds at the time of the
\* call, not with what the thread stored while it held the lock
CallGetTransactions_ReadsScanState(t) ==
    /\ InClient(t, "getTransactions")
    /\ Step(t, mgr, wallet, ThreadIdle, <<>>,
            << ClientCall("getTransactions",
                          IF t.value = 1 THEN "AnnounceGetTransactionsDone"
                                             ELSE "UpdateTransactions",
                          mgr.scanState.requestId, mgr.scanState.begBlockNumber,
                          mgr.scanState.endBlockNumber, t.addrs, 0) >>)

CallGetTransactions(t) ==
    /\ InClient(t, "getTransactions")
    /\ Step(t, mgr, wallet, ThreadIdle, <<>>,
            << ClientCall("getTransactions",
                          IF t.value = 1 THEN "AnnounceGetTransactionsDone"
                                             ELSE "UpdateTransactions",
                          t.rid, t.beg, t.end, t.addrs, 0) >>)

\* fault: submit takes an id and calls the client whatever the connection
Submit_AlwaysCalls(t, tx) ==
    /\ InClient(t, "idle")
    /\ CanGenerateRid
    /\ Step(t, [mgr EXCEPT !.requestIdGenerator = BRClientSyncManagerGenerateRid(mgr)],
            wallet,
            [ThreadAt("submitTransaction") EXCEPT
                !.rid = BRClientSyncManagerGenerateRid(mgr), !.tx = tx],
            <<>>, <<>>)

\* submit: the locked region reads the connection state and takes an id
BRClientSyncManagerSubmit(t, tx) ==
    /\ InClient(t, "idle")
    /\ LET needClientCall == mgr.isConnected # 0
       IN  IF needClientCall
           THEN /\ CanGenerateRid
                /\ Step(t, [mgr EXCEPT !.requestIdGenerator = BRClientSyncManagerGenerateRid(mgr)],
                        wallet,
                        [ThreadAt("submitTransaction") EXCEPT
                            !.rid = BRClientSyncManagerGenerateRid(mgr), !.tx = tx],
                        <<>>, <<>>)
           ELSE Step(t, mgr, wallet, [ThreadAt("txnSubmitted") EXCEPT !.tx = tx], <<>>, <<>>)

\* funcSubmitTransaction, called after the lock is released
CallSubmitTransaction(t) ==
    /\ InClient(t, "submitTransaction")
    /\ Step(t, mgr, wallet, ThreadIdle, <<>>,
            << ClientCall("submitTransaction", "Submit", t.rid, 0, 0, {}, t.tx) >>)

\* SYNC_MANAGER_TXN_SUBMITTED {transaction, -1}, sent after the lock is released
SendTxnSubmitted(t) ==
    /\ InClient(t, "txnSubmitted")
    /\ Step(t, mgr, wallet, ThreadIdle,
            << Event("TxnSubmitted", -1, t.tx, FALSE) >>, <<>>)

\* fault: a height equal to the known one is taken as new
AnnounceGetBlockNumber_AcceptsEqual(t, rid, blockHeight) ==
    /\ InClient(t, "idle")
    /\ LET needEvent == blockHeight >= mgr.networkBlockHeight /\ mgr.isConnected # 0
       IN  Step(t,
                IF needEvent THEN [mgr EXCEPT !.networkBlockHeight = blockHeight] ELSE mgr,
                wallet, ThreadIdle,
                IF needEvent THEN <<BlockHeightUpdatedEvent(blockHeight)>> ELSE <<>>,
                <<>>)

BRClientSyncManagerAnnounceGetBlockNumber(t, rid, blockHeight) ==
    /\ InClient(t, "idle")
    /\ LET needEvent == blockHeight > mgr.networkBlockHeight /\ mgr.isConnected # 0
       IN  Step(t,
                IF needEvent THEN [mgr EXCEPT !.networkBlockHeight = blockHeight] ELSE mgr,
                wallet, ThreadIdle,
                IF needEvent THEN <<BlockHeightUpdatedEvent(blockHeight)>> ELSE <<>>,
                <<>>)

\* no lock is taken; a transaction that was submitted is unconfirmed
BRClientSyncManagerAnnounceSubmitTransaction(t, rid, tx, error) ==
    /\ InClient(t, "idle")
    /\ Step(t, mgr,
            IF 0 = error /\ ~BRWalletTransactionForHash(wallet, tx)
            THEN BRWalletRegisterTransaction(wallet, tx, TX_UNCONFIRMED, 0)
            ELSE wallet,
            ThreadIdle,
            << Event("TxnSubmitted", error, tx, FALSE) >>, <<>>)

\* tx = 0 stands for bytes that do not parse or are not signed; the locked
\* region confirms the item is for the scan in progress
BRClientSyncManagerAnnounceGetTransactionsItem(t, rid, tx, timestamp, blockHeight) ==
    /\ InClient(t, "idle")
    /\ LET needRegistration ==
               /\ tx # 0
               /\ rid = BRClientSyncManagerScanStateGetRequestId(mgr.scanState)
               /\ mgr.isConnected # 0
       IN  Step(t, mgr, wallet,
                IF needRegistration
                THEN [ThreadAt("registerItem") EXCEPT
                        !.tx = tx, !.beg = timestamp % TIME32_SPAN, !.end = blockHeight % UINT32_SPAN]
                ELSE ThreadIdle,
                <<>>, <<>>)

\* fault: a transaction the wallet holds keeps the block it was first
\* announced in
RegisterItem_KeepsFirstBlock(t) ==
    /\ InClient(t, "registerItem")
    /\ Step(t, mgr,
            BRWalletRegisterTransaction(wallet, t.tx, t.end, t.beg),
            ThreadIdle, <<>>, <<>>)

\* the wallet is updated after the lock is released; beg and end hold the
\* timestamp and the block height as uint32_t
RegisterItem(t) ==
    /\ InClient(t, "registerItem")
    /\ Step(t, mgr,
            IF BRWalletTransactionForHash(wallet, t.tx)
            THEN BRWalletUpdateTransactions(wallet, t.tx, t.end, t.beg)
            ELSE BRWalletRegisterTransaction(wallet, t.tx, t.end, t.beg),
            ThreadIdle, <<>>, <<>>)

\* the completion of a getTransactions request
BRClientSyncManagerAnnounceGetTransactionsDone(t, rid, success) ==
    /\ InClient(t, "idle")
    /\ IF rid = BRClientSyncManagerScanStateGetRequestId(mgr.scanState) /\ mgr.isConnected # 0
       THEN IF success
            THEN IF mgr.scanState.requestId = 0 /\ FirstUnusedChanged(mgr.scanState, wallet)
                 THEN \* _updateWalletAddressSet reads the NULL address set
                      Step(t, [mgr EXCEPT !.aborted = TRUE], wallet, ThreadIdle, <<>>, <<>>)
                 ELSE IF NewAddresses(mgr.scanState, wallet) # {}
                 THEN Step(t,
                           [mgr EXCEPT !.scanState =
                               BRClientSyncManagerScanStateAdvance(mgr.scanState, wallet)],
                           wallet,
                           [ThreadAt("getTransactions") EXCEPT
                               !.rid = rid,
                               !.beg = mgr.scanState.begBlockNumber,
                               !.end = mgr.scanState.endBlockNumber,
                               !.addrs = NewAddresses(mgr.scanState, wallet),
                               !.value = 1],
                           <<>>, <<>>)
                 ELSE Step(t,
                           [mgr EXCEPT
                               !.syncedBlockHeight =
                                   BRClientSyncManagerScanStateGetSyncedBlockNumber(
                                       BRClientSyncManagerScanStateAdvance(mgr.scanState, wallet)),
                               !.scanState = BRClientSyncManagerScanStateWipe],
                           wallet, ThreadIdle,
                           IF BRClientSyncManagerScanStateIsFullScan(mgr.scanState) # 0
                           THEN <<SyncStoppedEvent(0)>> ELSE <<>>,
                           <<>>)
            ELSE Step(t, [mgr EXCEPT !.scanState = BRClientSyncManagerScanStateWipe],
                      wallet, ThreadIdle,
                      IF BRClientSyncManagerScanStateIsFullScan(mgr.scanState) # 0
                      THEN <<SyncStoppedEvent(-1)>> ELSE <<>>,
                      <<>>)
       ELSE Step(t, mgr, wallet, ThreadIdle, <<>>, <<>>)

\* BRSyncManagerP2PFullScanReport on a client manager: the switch has no
\* case for the mode
ClientP2PFullScanReport(t) ==
    /\ InClient(t, "idle")
    /\ Step(t, mgr, wallet, ThreadIdle, <<>>, <<>>)

\* ------------------------------------------------------------------------
\* Peer sync manager: the peer manager's callbacks
\* ------------------------------------------------------------------------

InPeer == mgr.mode = SYNC_MODE_P2P_ONLY /\ ~mgr.aborted

\* a step of the peer manager's thread
PeerStep(mgr2, evs) ==
    /\ mgr' = mgr2
    /\ events' = evs
    /\ calls' = <<>>
    /\ sink' = SinkAfter(sink, evs)
    /\ indexer' = indexer
    /\ UNCHANGED <<wallet, th, nthreads, bdb>>

\* fault: SyncStarted is delivered before the connection is signalled
PeerSyncStarted_ConnectedLast ==
    /\ InPeer
    /\ LET needConnectionEvent == mgr.isConnected = 0
           needSyncStoppedEvent == mgr.isFullScan # 0
       IN  PeerStep([mgr EXCEPT !.isConnected = 1, !.isFullScan = 1],
                    (IF needSyncStoppedEvent THEN <<SyncStoppedEvent(-1)>> ELSE <<>>)
                    \o <<SyncStartedEvent>>
                    \o (IF needConnectionEvent THEN <<ConnectedEvent>> ELSE <<>>))

\* fault: a sync that starts does not stop the one in progress
PeerSyncStarted_NoSyncStopped ==
    /\ InPeer
    /\ LET needConnectionEvent == mgr.isConnected = 0
       IN  PeerStep([mgr EXCEPT !.isConnected = 1, !.isFullScan = 1],
                    (IF needConnectionEvent THEN <<ConnectedEvent>> ELSE <<>>)
                    \o <<SyncStartedEvent>>)

PeerSyncStarted ==
    /\ InPeer
    /\ LET needConnectionEvent == mgr.isConnected = 0
           needSyncStoppedEvent == mgr.isFullScan # 0
           needSyncStartedEvent == TRUE
       IN  PeerStep([mgr EXCEPT
                        !.isConnected = IF needConnectionEvent THEN 1 ELSE mgr.isConnected,
                        !.isFullScan = IF needSyncStartedEvent THEN 1 ELSE mgr.isFullScan],
                    (IF needSyncStoppedEvent THEN <<SyncStoppedEvent(-1)>> ELSE <<>>)
                    \o (IF needConnectionEvent THEN <<ConnectedEvent>> ELSE <<>>)
                    \o (IF needSyncStartedEvent THEN <<SyncStartedEvent>> ELSE <<>>))

\* fault: Disconnected is delivered before the sync is stopped
PeerSyncStopped_DisconnectedFirst(reason, isConnected) ==
    /\ InPeer
    /\ LET needSyncStoppedEvent == mgr.isFullScan # 0
           needDisconnectionEvent == isConnected = 0 /\ mgr.isConnected # 0
       IN  PeerStep([mgr EXCEPT
                        !.isConnected = IF needDisconnectionEvent THEN 0 ELSE isConnected,
                        !.isFullScan = IF needSyncStoppedEvent THEN 0 ELSE mgr.isFullScan],
                    (IF needDisconnectionEvent THEN <<DisconnectedEvent>> ELSE <<>>)
                    \o (IF needSyncStoppedEvent THEN <<SyncStoppedEvent(reason)>> ELSE <<>>))

\* isConnected is what BRPeerManagerConnectStatus tells: 0 when the peer
\* manager is disconnected
PeerSyncStopped(reason, isConnected) ==
    /\ InPeer
    /\ LET needSyncStoppedEvent == mgr.isFullScan # 0
           needDisconnectionEvent == isConnected = 0 /\ mgr.isConnected # 0
       IN  PeerStep([mgr EXCEPT
                        !.isConnected = IF needDisconnectionEvent THEN 0 ELSE isConnected,
                        !.isFullScan = IF needSyncStoppedEvent THEN 0 ELSE mgr.isFullScan],
                    (IF needSyncStoppedEvent THEN <<SyncStoppedEvent(reason)>> ELSE <<>>)
                    \o (IF needDisconnectionEvent THEN <<DisconnectedEvent>> ELSE <<>>))

\* fault: the height the peer manager tells replaces the known one
PeerTxStatusUpdate_TakesAnyHeight(isConnected, blockHeight) ==
    /\ InPeer
    /\ LET needDisconnectionEvent == isConnected = 0 /\ mgr.isConnected # 0
           needSyncStoppedEvent == needDisconnectionEvent /\ mgr.isFullScan # 0
           needBlockHeightEvent == blockHeight > mgr.networkBlockHeight
       IN  PeerStep([mgr EXCEPT
                        !.isConnected = IF needDisconnectionEvent THEN 0 ELSE mgr.isConnected,
                        !.isFullScan = IF needSyncStoppedEvent THEN 0 ELSE mgr.isFullScan,
                        !.networkBlockHeight = blockHeight],
                    (IF needBlockHeightEvent THEN <<BlockHeightUpdatedEvent(blockHeight)>> ELSE <<>>)
                    \o (IF needSyncStoppedEvent THEN <<SyncStoppedEvent(0)>> ELSE <<>>)
                    \o (IF needDisconnectionEvent THEN <<DisconnectedEvent>> ELSE <<>>)
                    \o << Event("TxnsUpdated", 0, 0, TRUE) >>)

\* isConnected and blockHeight are what the peer manager tells; the
\* SyncStopped event is built without a reason, which leaves it 0
\* fault: the loss of the connection is signalled but the full scan stays
\* marked
PeerTxStatusUpdate_KeepsFullScan(isConnected, blockHeight) ==
    /\ InPeer
    /\ LET needDisconnectionEvent == isConnected = 0 /\ mgr.isConnected # 0
           needBlockHeightEvent == blockHeight > mgr.networkBlockHeight
       IN  PeerStep([mgr EXCEPT
                        !.isConnected = IF needDisconnectionEvent THEN 0 ELSE mgr.isConnected,
                        !.networkBlockHeight = MAX(blockHeight, mgr.networkBlockHeight)],
                    (IF needBlockHeightEvent THEN <<BlockHeightUpdatedEvent(blockHeight)>> ELSE <<>>)
                    \o (IF needDisconnectionEvent THEN <<DisconnectedEvent>> ELSE <<>>)
                    \o << Event("TxnsUpdated", 0, 0, TRUE) >>)

PeerTxStatusUpdate(isConnected, blockHeight) ==
    /\ InPeer
    /\ LET needDisconnectionEvent == isConnected = 0 /\ mgr.isConnected # 0
           needSyncStoppedEvent == needDisconnectionEvent /\ mgr.isFullScan # 0
           needBlockHeightEvent == blockHeight > mgr.networkBlockHeight
       IN  PeerStep([mgr EXCEPT
                        !.isConnected = IF needDisconnectionEvent THEN 0 ELSE mgr.isConnected,
                        !.isFullScan = IF needSyncStoppedEvent THEN 0 ELSE mgr.isFullScan,
                        !.networkBlockHeight = MAX(blockHeight, mgr.networkBlockHeight)],
                    (IF needBlockHeightEvent THEN <<BlockHeightUpdatedEvent(blockHeight)>> ELSE <<>>)
                    \o (IF needSyncStoppedEvent THEN <<SyncStoppedEvent(0)>> ELSE <<>>)
                    \o (IF needDisconnectionEvent THEN <<DisconnectedEvent>> ELSE <<>>)
                    \o << Event("TxnsUpdated", 0, 0, TRUE) >>)

PeerSaveBlocks(replace) ==
    /\ InPeer
    /\ PeerStep(mgr, << Event(IF replace THEN "SetBlocks" ELSE "AddBlocks", 0, 0, FALSE) >>)

PeerSavePeers(replace) ==
    /\ InPeer
    /\ PeerStep(mgr, << Event(IF replace THEN "SetPeers" ELSE "AddPeers", 0, 0, FALSE) >>)

\* a step of a thread calling the peer sync manager
InPeerThread(t, pc) == InPeer /\ CanStep(t) /\ t.pc = pc

\* submit hands the transaction and its context to BRPeerManagerPublishTx
BRPeerSyncManagerSubmit(t, tx) ==
    /\ InPeerThread(t, "idle")
    /\ Step(t, mgr, wallet, [ThreadAt("publishTx") EXCEPT !.tx = tx], <<>>, <<>>)

\* the peer manager reports the publication, once
PeerTxPublished(t, error) ==
    /\ InPeerThread(t, "publishTx")
    /\ Step(t, mgr, wallet, ThreadIdle, << Event("TxnSubmitted", error, t.tx, FALSE) >>, <<>>)

\* fault: a completed sync is reported as progress
TickTockLocked_ReportsComplete(t, progressComplete) ==
    LET needSyncEvent == /\ progressComplete > 0 /\ progressComplete <= 100
                         /\ mgr.isConnected # 0 /\ mgr.isFullScan # 0
    IN  Step(t, mgr, wallet, ThreadIdle,
             IF needSyncEvent THEN << Event("SyncProgress", progressComplete, 0, TRUE) >> ELSE <<>>,
             <<>>)

\* the progress the thread sampled before taking the lock, in percent
TickTockLocked(t, progressComplete) ==
    LET needSyncEvent == /\ progressComplete > 0 /\ progressComplete < 100
                         /\ mgr.isConnected # 0 /\ mgr.isFullScan # 0
    IN  Step(t, mgr, wallet, ThreadIdle,
             IF needSyncEvent THEN << Event("SyncProgress", progressComplete, 0, TRUE) >> ELSE <<>>,
             <<>>)

BRPeerSyncManagerTickTock(t, progressComplete) ==
    /\ InPeerThread(t, "idle")
    /\ TickTockLocked(t, progressComplete)

\* BRPeerSyncManagerIsInFullScan, then BRPeerSyncManagerTickTock
BRSyncManagerP2PFullScanReport(t) ==
    /\ InPeerThread(t, "idle")
    /\ Step(t, mgr, wallet,
            IF mgr.isFullScan # 0 THEN ThreadAt("tickTock") ELSE ThreadIdle, <<>>, <<>>)

FullScanReportTickTock(t, progressComplete) ==
    /\ InPeerThread(t, "tickTock")
    /\ TickTockLocked(t, progressComplete)

\* the client's announcements reach a manager in P2P mode after a change of
\* mode; the dispatcher ignores them
BRSyncManagerAnnounceInPeerMode(t) ==
    /\ InPeerThread(t, "idle")
    /\ Step(t, mgr, wallet, ThreadIdle, <<>>, <<>>)

\* fault: the case has no break and falls through to default: assert (0)
AnnounceGetBlockNumber_FallsThrough(t, rid, blockHeight) ==
    /\ InPeerThread(t, "idle")
    /\ Step(t, [mgr EXCEPT !.aborted = TRUE], wallet, ThreadIdle, <<>>, <<>>)

\* BRSyncManagerAnnounceGetBlockNumber, case SYNC_MODE_P2P_ONLY
PeerAnnounceGetBlockNumber(t, rid, blockHeight) ==
    BRSyncManagerAnnounceInPeerMode(t)

\* BRSyncManagerAnnounceGetTransactionsItem, case SYNC_MODE_P2P_ONLY
PeerAnnounceGetTransactionsItem(t, rid, tx, timestamp, blockHeight) ==
    BRSyncManagerAnnounceInPeerMode(t)

\* BRSyncManagerAnnounceGetTransactionsDone, case SYNC_MODE_P2P_ONLY
PeerAnnounceGetTransactionsDone(t, rid, success) ==
    BRSyncManagerAnnounceInPeerMode(t)

\* BRSyncManagerAnnounceSubmitTransaction, case SYNC_MODE_P2P_ONLY
PeerAnnounceSubmitTransaction(t, rid, tx, error) ==
    BRSyncManagerAnnounceInPeerMode(t)

\* ------------------------------------------------------------------------
\* Specifications
\* ------------------------------------------------------------------------

Rids == 0 .. MaxRid

\* the rid of announceGetBlockNumber and announceSubmitTransaction is not read
UnusedRids == {0}

Progresses == {0, 50, 100}

Reasons == {0, -1}

\* the steps of a client manager, the indexer announcing the items and the
\* submissions given
ClientNext(items, submitted) ==
    \/ \E t \in ThreadStates : BRClientSyncManagerConnect(t)
    \/ \E t \in ThreadStates : BRClientSyncManagerDisconnect(t)
    \/ \E t \in ThreadStates, depth \in SyncDepths : BRClientSyncManagerScanToDepth(t, depth)
    \/ \E t \in ThreadStates : BRClientSyncManagerTickTock(t)
    \/ \E t \in ThreadStates : ClientP2PFullScanReport(t)
    \/ \E t \in ThreadStates : BRClientSyncManagerUpdateBlockNumber(t)
    \/ \E t \in ThreadStates : CallGetBlockNumber(t)
    \/ \E t \in ThreadStates : BRClientSyncManagerUpdateTransactions(t)
    \/ \E t \in ThreadStates : CallGetTransactions(t)
    \/ \E t \in ThreadStates, tx \in submitted : BRClientSyncManagerSubmit(t, tx)
    \/ \E t \in ThreadStates : CallSubmitTransaction(t)
    \/ \E t \in ThreadStates : SendTxnSubmitted(t)
    \/ \E t \in ThreadStates, rid \in UnusedRids, h \in ReportedHeights :
            BRClientSyncManagerAnnounceGetBlockNumber(t, rid, h)
    \/ \E t \in ThreadStates, rid \in UnusedRids, tx \in submitted, error \in Reasons :
            BRClientSyncManagerAnnounceSubmitTransaction(t, rid, tx, error)
    \/ \E t \in ThreadStates, rid \in Rids, i \in items :
            BRClientSyncManagerAnnounceGetTransactionsItem(t, rid, i.tx, i.timestamp, i.blockHeight)
    \/ \E t \in ThreadStates : RegisterItem(t)
    \/ \E t \in ThreadStates, rid \in Rids, success \in BOOLEAN :
            BRClientSyncManagerAnnounceGetTransactionsDone(t, rid, success)

NextClient == ClientNext(AnnouncedItems, TxHashes)

NextClientConcurrent == ClientNext(AnnouncedItemsConcurrent, {2})

NextPeer ==
    \/ PeerSyncStarted
    \/ \E reason \in Reasons, isConnected \in {0, 1} : PeerSyncStopped(reason, isConnected)
    \/ \E isConnected \in {0, 1}, h \in ReportedHeights : PeerTxStatusUpdate(isConnected, h)
    \/ \E replace \in BOOLEAN : PeerSaveBlocks(replace)
    \/ \E replace \in BOOLEAN : PeerSavePeers(replace)
    \/ \E t \in ThreadStates, tx \in TxHashes : BRPeerSyncManagerSubmit(t, tx)
    \/ \E t \in ThreadStates, error \in Reasons : PeerTxPublished(t, error)
    \/ \E t \in ThreadStates, p \in Progresses : BRPeerSyncManagerTickTock(t, p)
    \/ \E t \in ThreadStates : BRSyncManagerP2PFullScanReport(t)
    \/ \E t \in ThreadStates, p \in Progresses : FullScanReportTickTock(t, p)
    \/ \E t \in ThreadStates, rid \in UnusedRids, h \in ReportedHeights :
            PeerAnnounceGetBlockNumber(t, rid, h)
    \/ \E t \in ThreadStates, rid \in Rids, i \in AnnouncedItems :
            PeerAnnounceGetTransactionsItem(t, rid, i.tx, i.timestamp, i.blockHeight)
    \/ \E t \in ThreadStates, rid \in Rids, success \in BOOLEAN :
            PeerAnnounceGetTransactionsDone(t, rid, success)
    \/ \E t \in ThreadStates, rid \in UnusedRids, tx \in TxHashes, error \in Reasons :
            PeerAnnounceSubmitTransaction(t, rid, tx, error)

Next == NextClientConcurrent \/ NextPeer

\* a manager of either mode, called by all the threads of the host
Spec == Init /\ [][Next]_vars

\* a client manager called by all the threads of the host
SpecClientConcurrent == InitClientConcurrent /\ [][NextClientConcurrent]_vars

\* a client manager whose functions are called one after the other
SpecClient == InitClient /\ [][NextClient]_vars

\* the host enters a function that takes request ids only while the
\* generator can hand out those the function takes
EntersWithinRids ==
    th = EmptyBag =>
        \A t \in BagToSet(th') :
            /\ t.pc = "updateBlockNumber" => mgr'.requestIdGenerator + 2 <= MaxRid
            /\ t.pc = "getBlockNumber" => mgr'.requestIdGenerator + 1 <= MaxRid

NextClientLive == NextClient /\ EntersWithinRids

\* a thread inside a function of the manager takes its next step
ThreadRuns == NextClientLive /\ th # EmptyBag

\* the indexer completes the getTransactions request of the scan in
\* progress, once the request has reached it
IndexerAnswers ==
    /\ mgr.scanState.requestId # 0
    /\ mgr.scanState.requestId \in indexer.rids
    /\ \E t \in ThreadStates, success \in BOOLEAN :
          BRClientSyncManagerAnnounceGetTransactionsDone(t, mgr.scanState.requestId, success)

\* one host thread; threads run, and the indexer answers every request: its
\* answer waits for the lock, which is released again and again
SpecClientLive ==
    InitClient /\ [][NextClientLive]_vars /\ WF_vars(ThreadRuns) /\ SF_vars(IndexerAnswers)

\* the operations of scenario S1: the host connects, the indexer tells the
\* height and completes the requests
NextScenarioS1 ==
    \/ \E t \in ThreadStates : BRClientSyncManagerConnect(t)
    \/ \E t \in ThreadStates : BRClientSyncManagerUpdateBlockNumber(t)
    \/ \E t \in ThreadStates : CallGetBlockNumber(t)
    \/ \E t \in ThreadStates : BRClientSyncManagerUpdateTransactions(t)
    \/ \E t \in ThreadStates : CallGetTransactions(t)
    \/ \E t \in ThreadStates, rid \in UnusedRids, h \in ReportedHeights :
            BRClientSyncManagerAnnounceGetBlockNumber(t, rid, h)
    \/ \E t \in ThreadStates, rid \in Rids, success \in BOOLEAN :
            BRClientSyncManagerAnnounceGetTransactionsDone(t, rid, success)

SpecScenarioS1 == InitClientConcurrent /\ [][NextScenarioS1]_vars

\* ------------------------------------------------------------------------
\* The blockchain-DB API client (BdbApiClient.java), through which the host
\* reaches the indexer.  A request is sent with a handler; the data task
\* calls the callback of the request once, with a response or a failure; the
\* callback calls the handler, which calls the completion handler.
\* ------------------------------------------------------------------------

\* ObjectHandler for an ObjectCompletionHandler, ArrayHandler for an
\* ArrayCompletionHandler
HandlerKinds == {"ObjectHandler", "ArrayHandler"}

\* response.code()
ResponseCodes == {200, 404}

\* response.body(): none; one whose bytes cannot be read (string() throws
\* IOException); text that is no JSON object; or a JSON object, of which the
\* handlers read page.total_pages (-1: there is no page object) and
\* _embedded.<path> ("absent": no _embedded; "noArray": no array under the
\* path)
ResponseBodies ==
    { [kind |-> k, totalPages |-> 0, embedded |-> "absent"] :
        k \in {"null", "unreadable", "malformed"} }
    \cup { [kind |-> "json", totalPages |-> n, embedded |-> e] :
             n \in {-1, 1, 2}, e \in {"absent", "noArray", "array"} }

CompletionHandleData(more) == [func |-> "handleData", more |-> more, error |-> "none"]

CompletionHandleError(error) == [func |-> "handleError", more |-> FALSE, error |-> error]

\* (jsonPage == null ? 0 : jsonPage.optInt("total_pages", 0)) > 1
PageIsFull(json) == (IF json.totalPages = -1 THEN 0 ELSE json.totalPages) > 1

\* ObjectHandler.handleData: the calls it makes on the completion handler
ObjectHandlerHandleData(json) ==
    LET full == PageIsFull(json)
        more == FALSE /\ full
    IN  << CompletionHandleData(more) >>

\* ArrayHandler.handleData
ArrayHandlerHandleData(json) ==
    LET full == PageIsFull(json)
        more == FALSE /\ full
    IN  IF json.embedded # "array"
        THEN << CompletionHandleError("QueryModelError") >>
        ELSE << CompletionHandleData(more) >>

HandlerHandleData(handler, json) ==
    IF handler = "ObjectHandler" THEN ObjectHandlerHandleData(json)
    ELSE ArrayHandlerHandleData(json)

\* Callback.onResponse: the calls made on the completion handler.  An
\* IOException of responseBody.string() is not caught: it leaves onResponse
\* before the handler is called.
CallbackOnResponse(handler, responseCode, responseBody) ==
    IF responseCode = 200
    THEN CASE responseBody.kind = "null" -> << CompletionHandleError("QueryNoDataError") >>
           [] responseBody.kind = "unreadable" -> <<>>
           [] responseBody.kind = "malformed" -> << CompletionHandleError("QueryJsonParseError") >>
           [] OTHER -> HandlerHandleData(handler, responseBody)
    ELSE << CompletionHandleError("QueryUrlError") >>

\* Callback.onFailure
CallbackOnFailure(handler) == << CompletionHandleError("QuerySubmissionError") >>

BdbStep(requests2) ==
    /\ bdb' = [bdb EXCEPT !.requests = requests2]
    /\ UNCHANGED <<mgr, wallet, th, events, calls, sink, indexer, nthreads>>

\* sendGetRequest, sendRequest: the request is handed to the data task
BdbSendRequest(handler) ==
    /\ Len(bdb.requests) < MaxRequests
    /\ BdbStep(Append(bdb.requests,
                      [handler |-> handler, answered |-> FALSE, completion |-> <<>>]))

\* the data task calls onResponse of request r
BdbOnResponse(r, responseCode, responseBody) ==
    /\ ~bdb.requests[r].answered
    /\ BdbStep([bdb.requests EXCEPT
                  ![r].answered = TRUE,
                  ![r].completion =
                      CallbackOnResponse(bdb.requests[r].handler, responseCode, responseBody)])

\* the data task calls onFailure of request r
BdbOnFailure(r) ==
    /\ ~bdb.requests[r].answered
    /\ BdbStep([bdb.requests EXCEPT
                  ![r].answered = TRUE,
                  ![r].completion = CallbackOnFailure(bdb.requests[r].handler)])

NextBdbApiClient ==
    \/ \E handler \in HandlerKinds : BdbSendRequest(handler)
    \/ \E r \in DOMAIN bdb.requests, responseCode \in ResponseCodes, responseBody \in ResponseBodies :
            BdbOnResponse(r, responseCode, responseBody)
    \/ \E r \in DOMAIN bdb.requests : BdbOnFailure(r)

\* the API client of a host whose manager is not called
SpecBdbApiClient == InitClient /\ [][NextBdbApiClient]_vars

\* ------------------------------------------------------------------------
\* A client manager at the ends of its number ranges: a key time before the
\* first week of the epoch, the greatest height the indexer can announce, and
\* a send that is CONFIRMATION_BLOCK_COUNT blocks below the network height
\* ------------------------------------------------------------------------

\* earliestKeyTime given to the constructor (units of TIME_UNIT)
EdgeKeyTimes == {0, 25000}

\* heights the indexer may announce
EdgeHeights == {206, UINT64_SPAN - 1}

\* the items the indexer may announce
EdgeItems == { [tx |-> 1, blockHeight |-> 200, timestamp |-> 22000] }

\* the constructor asserts that a checkpoint was found
EdgeConstructorInputs ==
    { in \in EdgeKeyTimes \X InitialBlockHeights :
        BRChainParamsGetCheckpointBefore(KeyTimeMinusOneWeek(in[1])) # NoCheckPoint }

InitClientEdge ==
    /\ \E in \in EdgeConstructorInputs : mgr = BRClientSyncManagerNew(in[1], in[2])
    /\ nthreads = 1
    /\ InitRest

NextClientEdge ==
    \/ \E t \in ThreadStates : BRClientSyncManagerConnect(t)
    \/ \E t \in ThreadStates, depth \in SyncDepths : BRClientSyncManagerScanToDepth(t, depth)
    \/ \E t \in ThreadStates : BRClientSyncManagerUpdateBlockNumber(t)
    \/ \E t \in ThreadStates : CallGetBlockNumber(t)
    \/ \E t \in ThreadStates : BRClientSyncManagerUpdateTransactions(t)
    \/ \E t \in ThreadStates : CallGetTransactions(t)
    \/ \E t \in ThreadStates, rid \in UnusedRids, h \in EdgeHeights :
            BRClientSyncManagerAnnounceGetBlockNumber(t, rid, h)
    \/ \E t \in ThreadStates, rid \in Rids, i \in EdgeItems :
            BRClientSyncManagerAnnounceGetTransactionsItem(t, rid, i.tx, i.timestamp, i.blockHeight)
    \/ \E t \in ThreadStates : RegisterItem(t)
    \/ \E t \in ThreadStates, rid \in Rids, success \in BOOLEAN :
            BRClientSyncManagerAnnounceGetTransactionsDone(t, rid, success)

\* a client manager at the ends of its number ranges, its functions called
\* one after the other
SpecClientEdge == InitClientEdge /\ [][NextClientEdge]_vars

SpecPeer == InitPeer /\ [][NextPeer]_vars

\* ------------------------------------------------------------------------
\* Properties
\* ------------------------------------------------------------------------

IsClient == mgr.mode = SYNC_MODE_BRD_ONLY

IsPeer == mgr.mode = SYNC_MODE_P2P_ONLY

\* what the event callback has seen just before the i-th event of evs
SinkBefore(s, evs, i) == SinkAfter(s, SubSeq(evs, 1, i - 1))

\* the connection events of evs, delivered after the sink saw s: each differs
\* from the connection event before it, and the first ever is Connected
Alternates(s, evs) ==
    \A i \in DOMAIN evs :
        evs[i].kind \in {"Connected", "Disconnected"} =>
            /\ evs[i].kind # SinkBefore(s, evs, i).conn
            /\ SinkBefore(s, evs, i).conn = "None" => evs[i].kind = "Connected"

\* the sync events of evs, delivered after the sink saw s: SyncStarted comes
\* only with no SyncStarted outstanding, SyncStopped only with one outstanding
Paired(s, evs) ==
    \A i \in DOMAIN evs :
        /\ evs[i].kind = "SyncStarted" => SinkBefore(s, evs, i).syncing = 0
        /\ evs[i].kind = "SyncStopped" => SinkBefore(s, evs, i).syncing = 1

\* C1: in client mode, under every interleaving of the threads calling the
\* manager, the Connected and Disconnected events delivered to the event
\* callback strictly alternate and the first of them is Connected.
C1_ClientConnectionEventsAlternate ==
    [][IsClient => Alternates(sink, events')]_vars

\* C1 witness: scanToDepth, called during a full scan while another thread is
\* inside the manager, has delivered SyncStopped, Disconnected, Connected.
C1_Witness ==
    /\ IsClient
    /\ BagCardinality(th) = 2
    /\ events = <<SyncStoppedEvent(-1), DisconnectedEvent, ConnectedEvent>>

\* C2: in P2P mode, for every sequence of syncStarted, syncStopped and
\* txStatusUpdate callbacks and every connect status the peer manager tells,
\* the Connected and Disconnected events strictly alternate and the first of
\* them is Connected.
C2_PeerConnectionEventsAlternate ==
    [][IsPeer => Alternates(sink, events')]_vars

\* C3: in both modes SyncStarted and SyncStopped are paired: no SyncStarted
\* is delivered while one is outstanding and no SyncStopped while none is.
C3_SyncEventsPaired ==
    [][Paired(sink, events')]_vars

\* C3 witness: a disconnect during a full scan of a client manager has
\* stopped the sync that was outstanding.
C3_Witness ==
    /\ IsClient
    /\ events = <<SyncStoppedEvent(-1), DisconnectedEvent>>
    /\ sink.syncing = 0

\* C4 as stated: every request id the indexer observes is greater than the
\* one it observed before, gap-limit re-issues included, under every
\* interleaving of the threads.
C4_RequestIdsStrictlyIncreasing ==
    [][IsClient => \A i \in DOMAIN calls' :
                       calls'[i].rid > IndexerAfter(indexer, SubSeq(calls', 1, i - 1)).lastRid]_vars

\* C4 amended: the generator only grows, by one per request; every call
\* carries an id the generator has handed out; a call that is not a
\* gap-limit re-issue carries an id no earlier such call carried; a re-issue
\* is prepared with the id of the scan in progress.
C4_RequestIdsFreshOrReissued ==
    [][IsClient =>
        /\ mgr'.requestIdGenerator \in {mgr.requestIdGenerator, mgr.requestIdGenerator + 1}
        /\ \A i \in DOMAIN calls' :
              /\ calls'[i].rid \in 1 .. mgr.requestIdGenerator
              /\ calls'[i].origin # "AnnounceGetTransactionsDone" =>
                     calls'[i].rid \notin IndexerAfter(indexer, SubSeq(calls', 1, i - 1)).rids
        /\ \A t \in BagToSet(th') \ BagToSet(th) :
              t.value = 1 => t.rid # 0 /\ t.rid = mgr.scanState.requestId]_vars

\* C4 witness: the indexer has received a gap-limit re-issue after a request
\* with a greater id.
C4_Witness ==
    /\ IsClient
    /\ Len(calls) = 1
    /\ calls[1].origin = "AnnounceGetTransactionsDone"
    /\ \E rid \in indexer.rids : rid > calls[1].rid

\* C5: in both modes networkBlockHeight never decreases.
C5_NetworkBlockHeightMonotone ==
    [][mgr'.networkBlockHeight >= mgr.networkBlockHeight]_vars

\* C5 witness: a client manager that announced the greatest height and was
\* then disconnected keeps the height.
C5_Witness ==
    /\ IsClient
    /\ mgr.networkBlockHeight = 1000
    /\ sink.height = 1000
    /\ events = <<DisconnectedEvent>>

\* C6: in client mode syncedBlockHeight >= initBlockHeight in every state,
\* also after scanToDepth to every depth, for every wallet history.
C6_SyncedAtLeastInit ==
    IsClient => mgr.syncedBlockHeight >= mgr.initBlockHeight

\* C7: in client mode, while the manager is disconnected no scan is in
\* progress: the scan state holds no request id and is no full scan.
C7_DisconnectedHasNoScan ==
    (IsClient /\ mgr.isConnected = 0) =>
        /\ ~BRClientSyncManagerScanStateIsInProgress(mgr.scanState)
        /\ BRClientSyncManagerScanStateIsFullScan(mgr.scanState) = 0

\* C7 witness: a thread created a scan and, before it called the indexer,
\* another thread disconnected the manager.
C7_Witness ==
    /\ IsClient
    /\ mgr.isConnected = 0
    /\ events = <<DisconnectedEvent>>
    /\ \E t \in BagToSet(th) : t.pc = "getTransactions" /\ t.rid # 0

\* C8: in client mode, when announceGetTransactionsDone (rid, success) is
\* accepted for the scan in progress and no new address was discovered,
\* syncedBlockHeight becomes the scan's endBlockNumber - 1, the scan state is
\* wiped and SyncStopped {0} is delivered iff the scan was a full scan; the
\* scan's endBlockNumber - 1 is the greater of syncedBlockHeight and
\* networkBlockHeight as they were when the scan was created.
C8_SuccessfulDoneCompletesScan ==
    [][IsClient =>
        /\ \A t \in ThreadStates, rid \in Rids :
              ( /\ BRClientSyncManagerAnnounceGetTransactionsDone(t, rid, TRUE)
                /\ rid # 0
                /\ rid = mgr.scanState.requestId
                /\ mgr.isConnected # 0
                /\ NewAddresses(mgr.scanState, wallet) = {} )
              => /\ mgr'.syncedBlockHeight = mgr.scanState.endBlockNumber - 1
                 /\ mgr'.scanState = BRClientSyncManagerScanStateWipe
                 /\ events' = IF mgr.scanState.isFullScan # 0
                              THEN <<SyncStoppedEvent(0)>> ELSE <<>>
        /\ (mgr.scanState.requestId = 0 /\ mgr'.scanState.requestId # 0)
              => mgr'.scanState.endBlockNumber - 1
                    = MAX(mgr.syncedBlockHeight, mgr.networkBlockHeight)
        /\ (mgr.scanState.requestId # 0
                /\ mgr'.scanState.requestId = mgr.scanState.requestId)
              => mgr'.scanState.endBlockNumber = mgr.scanState.endBlockNumber]_vars

\* C8 witness: a full scan up to the greatest height has completed.
C8_Witness ==
    /\ IsClient
    /\ events = <<SyncStoppedEvent(0)>>
    /\ mgr.syncedBlockHeight = 1000
    /\ mgr.scanState = BRClientSyncManagerScanStateWipe

\* C9: in client mode announceGetBlockNumber (rid, h) sets networkBlockHeight
\* to h and delivers BlockHeightUpdated {h} iff the manager is connected and
\* h > networkBlockHeight, and otherwise delivers nothing and leaves the
\* height; the heights of successive BlockHeightUpdated events increase
\* strictly.
C9_AnnounceGetBlockNumber ==
    [][IsClient =>
        /\ \A t \in ThreadStates, rid \in UnusedRids, h \in ReportedHeights \cup {mgr.networkBlockHeight} :
              BRClientSyncManagerAnnounceGetBlockNumber(t, rid, h) =>
                  IF mgr.isConnected # 0 /\ h > mgr.networkBlockHeight
                  THEN /\ mgr'.networkBlockHeight = h
                       /\ events' = <<BlockHeightUpdatedEvent(h)>>
                  ELSE /\ mgr'.networkBlockHeight = mgr.networkBlockHeight
                       /\ events' = <<>>
        /\ \A i \in DOMAIN events' :
              events'[i].kind = "BlockHeightUpdated" =>
                  events'[i].value > SinkBefore(sink, events', i).height]_vars

\* C9 witness: the greatest height was announced to a connected manager that
\* had announced a smaller height before.
C9_Witness ==
    /\ IsClient
    /\ events = <<BlockHeightUpdatedEvent(1000)>>
    /\ mgr.isConnected # 0
    /\ mgr.networkBlockHeight = 1000

\* C10: in P2P mode BlockHeightUpdated is delivered only while the last
\* connection event delivered is Connected, and only with a height greater
\* than that of the BlockHeightUpdated delivered before.
C10_PeerBlockHeightUpdatedWhileConnected ==
    [][IsPeer =>
        \A i \in DOMAIN events' :
            events'[i].kind = "BlockHeightUpdated" =>
                /\ SinkBefore(sink, events', i).conn = "Connected"
                /\ events'[i].value > SinkBefore(sink, events', i).height]_vars

\* the threads in state t that the step takes out of that state
Leaves(t) == CopiesIn(t, th') < CopiesIn(t, th)

\* C11: in client mode disconnect on a connected manager clears the
\* connection and wipes the scan state, delivering SyncStopped {-1} then
\* Disconnected if a full scan was in progress and only Disconnected
\* otherwise; on a manager that is not connected it delivers nothing and
\* changes nothing.
C11_Disconnect ==
    [][IsClient =>
        \A t \in ThreadStates :
            BRClientSyncManagerDisconnect(t) =>
                /\ calls' = <<>>
                /\ wallet' = wallet
                /\ IF mgr.isConnected # 0
                   THEN /\ mgr' = [mgr EXCEPT !.isConnected = 0,
                                              !.scanState = BRClientSyncManagerScanStateWipe]
                        /\ events' = IF mgr.scanState.isFullScan # 0
                                     THEN <<SyncStoppedEvent(-1), DisconnectedEvent>>
                                     ELSE <<DisconnectedEvent>>
                   ELSE /\ mgr' = mgr
                        /\ events' = <<>>]_vars

\* C11 witness: disconnect during a full scan has stopped the sync, then
\* signalled Disconnected, and left no scan.
C11_Witness ==
    /\ IsClient
    /\ nthreads = 1
    /\ events = <<SyncStoppedEvent(-1), DisconnectedEvent>>
    /\ mgr.isConnected = 0
    /\ mgr.scanState = BRClientSyncManagerScanStateWipe

\* C12: in client mode announceGetTransactionsDone with a rid that is not
\* the scan state's request id, or on a disconnected manager, is dropped:
\* the manager, the wallet and the threads are unchanged, no event is
\* delivered and no client callback is invoked.
C12_StaleDoneDropped ==
    [][IsClient =>
        \A t \in ThreadStates, rid \in Rids, success \in BOOLEAN :
            ( /\ BRClientSyncManagerAnnounceGetTransactionsDone(t, rid, success)
              /\ (rid # mgr.scanState.requestId \/ mgr.isConnected = 0) )
            => /\ mgr' = mgr
               /\ wallet' = wallet
               /\ th' = th
               /\ events' = <<>>
               /\ calls' = <<>>]_vars

\* C12 witness: a scan was requested from the indexer, a disconnect has
\* cancelled it, and a call made after the disconnect was dropped.
C12_Witness ==
    /\ IsClient
    /\ nthreads = 1
    /\ sink.conn = "Disconnected"
    /\ mgr.isConnected = 0
    /\ \E rid \in indexer.rids : rid = indexer.lastRid /\ rid > 1
    /\ events = <<>>
    /\ calls = <<>>
    /\ th = EmptyBag

\* C13: in client mode submit decides under the lock: disconnected, it takes
\* no request id and the thread then delivers exactly TxnSubmitted {tx, -1}
\* and calls no client callback; connected, it takes the next request id and
\* the thread then calls submitTransaction once with that id, which no
\* request carried before, and delivers no event.
C13_Submit ==
    [][IsClient =>
        /\ \A t \in ThreadStates, tx \in TxHashes :
              BRClientSyncManagerSubmit(t, tx) =>
                  /\ events' = <<>>
                  /\ calls' = <<>>
                  /\ IF mgr.isConnected = 0
                     THEN /\ mgr' = mgr
                          /\ th' = ThreadsAfter(t, [ThreadAt("txnSubmitted") EXCEPT !.tx = tx])
                     ELSE /\ mgr' = [mgr EXCEPT !.requestIdGenerator = mgr.requestIdGenerator + 1]
                          /\ th' = ThreadsAfter(t, [ThreadAt("submitTransaction") EXCEPT
                                                        !.rid = mgr.requestIdGenerator + 1,
                                                        !.tx = tx])
        /\ \A t \in BagToSet(th) :
              (t.pc = "txnSubmitted" /\ Leaves(t)) =>
                  /\ events' = << Event("TxnSubmitted", -1, t.tx, FALSE) >>
                  /\ calls' = <<>>
                  /\ mgr' = mgr
                  /\ th' = ThreadsAfter(t, ThreadIdle)
        /\ \A t \in BagToSet(th) :
              (t.pc = "submitTransaction" /\ Leaves(t)) =>
                  /\ calls' = << ClientCall("submitTransaction", "Submit", t.rid, 0, 0, {}, t.tx) >>
                  /\ t.rid \notin indexer.rids
                  /\ events' = <<>>
                  /\ mgr' = mgr
                  /\ th' = ThreadsAfter(t, ThreadIdle)]_vars

\* C13 witness: submit took its id while connected, another thread
\* disconnected the manager, and the client was called all the same.
C13_Witness ==
    /\ IsClient
    /\ Len(calls) = 1
    /\ calls[1].func = "submitTransaction"
    /\ mgr.isConnected = 0
    /\ sink.conn = "Disconnected"

\* the step left the manager, the wallet and the threads as they were,
\* delivered no event and invoked no client callback
Ignored ==
    /\ mgr' = mgr
    /\ wallet' = wallet
    /\ th' = th
    /\ events' = <<>>
    /\ calls' = <<>>

\* C14: on a manager in P2P mode each of announceGetBlockNumber,
\* announceGetTransactionsItem, announceGetTransactionsDone and
\* announceSubmitTransaction is ignored: no event, no wallet operation, and
\* networkBlockHeight, isConnected and isFullScan are unchanged.
C14_PeerIgnoresAnnouncements ==
    [][IsPeer =>
        \A t \in ThreadStates :
            /\ \A rid \in UnusedRids, h \in ReportedHeights :
                  PeerAnnounceGetBlockNumber(t, rid, h) => Ignored
            /\ \A rid \in Rids, i \in AnnouncedItems :
                  PeerAnnounceGetTransactionsItem(t, rid, i.tx, i.timestamp, i.blockHeight)
                      => Ignored
            /\ \A rid \in Rids, success \in BOOLEAN :
                  PeerAnnounceGetTransactionsDone(t, rid, success) => Ignored
            /\ \A rid \in UnusedRids, tx \in TxHashes, error \in Reasons :
                  PeerAnnounceSubmitTransaction(t, rid, tx, error) => Ignored]_vars

\* C14 witness: a connected P2P manager in a full scan took a step that
\* delivered nothing, with a height above the one it was created with.
C14_Witness ==
    /\ IsPeer
    /\ mgr.isConnected = 1
    /\ mgr.isFullScan = 1
    /\ mgr.networkBlockHeight = 244
    /\ events = <<>>
    /\ th = EmptyBag

\* the only thread is where connect leaves it after the lock, and connect
\* found the manager connected: a connect that connects and a scanToDepth
\* of a connected manager both deliver events in the step that leads here
ConnectFoundConnected ==
    /\ nthreads = 1
    /\ mgr.isConnected # 0
    /\ events = <<>>
    /\ \E t \in ThreadStates : InClient(t, "updateBlockNumber")

\* C15: connect on a client manager that is already connected is a no-op: no
\* event, no client callback, no request id and no change of state, in the
\* locked region and in what connect runs after it.
C15_ConnectWhenConnectedIsNoOp ==
    [][IsClient =>
        /\ \A t \in ThreadStates :
              BRClientSyncManagerConnect(t) /\ mgr.isConnected # 0
                  => mgr' = mgr /\ wallet' = wallet /\ events' = <<>> /\ calls' = <<>>
        /\ ConnectFoundConnected
              => mgr' = mgr /\ wallet' = wallet /\ events' = <<>> /\ calls' = <<>>]_vars

\* the step delivered no event, invoked no client callback and left the
\* manager and the wallet as they were
Quiet ==
    /\ mgr' = mgr
    /\ wallet' = wallet
    /\ events' = <<>>
    /\ calls' = <<>>

\* C16: with one thread calling a client manager, scanToDepth on a connected
\* manager cancels the scan and delivers SyncStopped {-1} (only if a full
\* scan was in progress), Disconnected, Connected, in this order; the thread
\* then takes a fresh request id and calls getBlockNumber with it, then
\* starts a scan with the next request id and calls getTransactions with it.
\* On a disconnected manager scanToDepth delivers nothing, calls nothing
\* and leaves syncedBlockHeight as it was.
C16_ScanToDepth ==
    [][(IsClient /\ nthreads = 1) =>
        /\ \A t \in ThreadStates, depth \in SyncDepths :
              BRClientSyncManagerScanToDepth(t, depth) =>
                  /\ calls' = <<>>
                  /\ wallet' = wallet
                  /\ th' = SetToBag({ThreadAt("updateBlockNumber")})
                  /\ IF mgr.isConnected # 0
                     THEN /\ events' = (IF mgr.scanState.isFullScan # 0
                                        THEN <<SyncStoppedEvent(-1)>> ELSE <<>>)
                                       \o <<DisconnectedEvent, ConnectedEvent>>
                          /\ mgr'.scanState = BRClientSyncManagerScanStateWipe
                          /\ mgr'.isConnected = mgr.isConnected
                          /\ mgr'.requestIdGenerator = mgr.requestIdGenerator
                     ELSE /\ events' = <<>>
                          /\ mgr' = mgr
        /\ \A t \in BagToSet(th) :
              (t.pc = "updateBlockNumber" /\ Leaves(t)) =>
                  IF mgr.isConnected # 0
                  THEN /\ mgr' = [mgr EXCEPT !.requestIdGenerator = mgr.requestIdGenerator + 1]
                       /\ events' = <<>> /\ calls' = <<>> /\ wallet' = wallet
                       /\ th' = SetToBag({[ThreadAt("getBlockNumber") EXCEPT
                                              !.rid = mgr.requestIdGenerator + 1]})
                  ELSE Quiet /\ th' = SetToBag({ThreadAt("updateTransactions")})
        /\ \A t \in BagToSet(th) :
              (t.pc = "getBlockNumber" /\ Leaves(t)) =>
                  /\ calls' = << ClientCall("getBlockNumber", "UpdateBlockNumber",
                                            t.rid, 0, 0, {}, 0) >>
                  /\ t.rid \notin indexer.rids
                  /\ mgr' = mgr /\ wallet' = wallet /\ events' = <<>>
                  /\ th' = SetToBag({ThreadAt("updateTransactions")})
        /\ \A t \in BagToSet(th) :
              (t.pc = "updateTransactions" /\ Leaves(t)) =>
                  IF mgr.isConnected # 0 /\ mgr.scanState = BRClientSyncManagerScanStateWipe
                  THEN /\ mgr'.requestIdGenerator = mgr.requestIdGenerator + 1
                       /\ mgr'.scanState.requestId = mgr.requestIdGenerator + 1
                       /\ mgr'.syncedBlockHeight = mgr.syncedBlockHeight
                       /\ calls' = <<>>
                       /\ \E t2 \in BagToSet(th') :
                             /\ th' = SetToBag({t2})
                             /\ t2.pc = "getTransactions"
                             /\ t2.value = 0
                             /\ t2.rid = mgr.requestIdGenerator + 1
                  ELSE mgr.isConnected = 0 => (Quiet /\ th' = EmptyBag)
        /\ \A t \in BagToSet(th) :
              (t.pc = "getTransactions" /\ t.value = 0 /\ Leaves(t)) =>
                  /\ Len(calls') = 1
                  /\ calls'[1].func = "getTransactions"
                  /\ calls'[1].rid = t.rid
                  /\ t.rid \notin indexer.rids
                  /\ mgr' = mgr /\ wallet' = wallet /\ events' = <<>>
                  /\ th' = EmptyBag]_vars

\* C16 witness: scanToDepth has cancelled a full scan of a connected manager
\* and the thread is about to request the block number.
C16_Witness ==
    /\ IsClient
    /\ nthreads = 1
    /\ events = <<SyncStoppedEvent(-1), DisconnectedEvent, ConnectedEvent>>
    /\ mgr.isConnected # 0
    /\ mgr.scanState = BRClientSyncManagerScanStateWipe
    /\ th = SetToBag({ThreadAt("updateBlockNumber")})

\* the wallet holds a send of its funds in the block of the height
HoldsSendAt(w, height) ==
    \E hash \in DOMAIN w :
        /\ BRWalletAmountSentByTx(hash) > 0
        /\ w[hash].blockHeight = height

WindowHeights == {0, 50, 142, 143, 144, 150, 244, 1000}

\* the window of a scan as the claim gives it
WindowEnd(synced, network) == (IF synced > network THEN synced ELSE network) + 1

WindowBegin(synced, network) ==
    LET end == WindowEnd(synced, network)
        back == IF end < 144 THEN 0 ELSE end - 144
    IN  IF synced < back THEN synced ELSE back

\* C18: updateTransactions of a client manager starts a scan exactly when
\* the manager is connected and no scan is in progress: the scan takes the
\* next request id, its window ends at max (synced, network) + 1 and begins
\* at min (synced, end - 144), with 0 for end - 144 when end < 144, and the
\* thread then calls getTransactions with exactly this window and request
\* id; otherwise updateTransactions does nothing.
C18_UpdateTransactions ==
    [][IsClient =>
        /\ \A t \in ThreadStates :
              BRClientSyncManagerUpdateTransactions(t) =>
                  IF mgr.isConnected # 0 /\ mgr.scanState.requestId = 0
                  THEN LET rid == mgr.requestIdGenerator + 1
                           beg == WindowBegin(mgr.syncedBlockHeight, mgr.networkBlockHeight)
                           end == WindowEnd(mgr.syncedBlockHeight, mgr.networkBlockHeight)
                       IN  /\ mgr'.scanState.requestId = rid
                           /\ mgr'.scanState.begBlockNumber = beg
                           /\ mgr'.scanState.endBlockNumber = end
                           /\ mgr'.requestIdGenerator = rid
                           /\ calls' = <<>>
                           /\ \E t2 \in BagToSet(th') :
                                 /\ th' = ThreadsAfter(t, t2)
                                 /\ t2.pc = "getTransactions"
                                 /\ t2.rid = rid /\ t2.beg = beg /\ t2.end = end
                                 /\ t2.value = 0
                  ELSE Quiet /\ th' = ThreadsAfter(t, ThreadIdle)
        /\ \A t \in BagToSet(th) :
              (t.pc = "getTransactions" /\ Leaves(t)) =>
                  /\ Len(calls') = 1
                  /\ calls'[1].func = "getTransactions"
                  /\ calls'[1].rid = t.rid
                  /\ calls'[1].beg = t.beg
                  /\ calls'[1].end = t.end
                  /\ calls'[1].addrs = t.addrs
                  /\ mgr' = mgr /\ wallet' = wallet /\ events' = <<>>
        /\ \A synced \in WindowHeights, network \in WindowHeights :
              /\ ScanWindowEnd(synced, network) = WindowEnd(synced, network)
              /\ ScanWindowBeg(synced, ScanWindowEnd(synced, network))
                     = WindowBegin(synced, network)]_vars

\* C18 witness: the client was asked for the transactions of the window
\* [100, 1001) of the scan in progress, which begins at the synced height
\* and not the offset before its end.
C18_Witness ==
    /\ IsClient
    /\ Len(calls) = 1
    /\ calls[1].func = "getTransactions"
    /\ calls[1].origin = "UpdateTransactions"
    /\ calls[1].rid = mgr.scanState.requestId
    /\ calls[1].beg = mgr.scanState.begBlockNumber
    /\ calls[1].end = mgr.scanState.endBlockNumber
    /\ mgr.syncedBlockHeight = 100
    /\ mgr.networkBlockHeight = 1000
    /\ calls[1].beg = 100
    /\ calls[1].end = 1001

\* the events of the kind among those a step delivered
Delivered(kind, evs) == \E i \in 1 .. Len(evs) : evs[i].kind = kind

\* C19: a scan of a client manager is a full scan exactly when its window is
\* wider than 144 blocks; the step that starts a scan delivers SyncStarted
\* exactly when the scan is a full scan and no other step delivers it; and
\* no step delivers SyncStopped unless it ends a full scan, so a scan of
\* width 144 or less delivers neither SyncStarted nor SyncStopped, however
\* it ends.
C19_FullScan ==
    [][IsClient =>
        /\ \A t \in ThreadStates :
              ( /\ BRClientSyncManagerUpdateTransactions(t)
                /\ mgr'.scanState # mgr.scanState )
              => LET width == mgr'.scanState.endBlockNumber - mgr'.scanState.begBlockNumber
                 IN  /\ mgr'.scanState.isFullScan = (IF width > 144 THEN 1 ELSE 0)
                     /\ events' = IF width > 144 THEN <<SyncStartedEvent>> ELSE <<>>
        /\ Delivered("SyncStarted", events')
              => /\ mgr.scanState.requestId = 0
                 /\ mgr'.scanState.requestId # 0
                 /\ mgr'.scanState.endBlockNumber - mgr'.scanState.begBlockNumber > 144
        /\ Delivered("SyncStopped", events')
              => /\ mgr.scanState.requestId # 0
                 /\ mgr.scanState.endBlockNumber - mgr.scanState.begBlockNumber > 144
                 /\ mgr'.scanState.requestId = 0
        /\ ( /\ mgr.scanState.requestId # 0
             /\ mgr.scanState.endBlockNumber - mgr.scanState.begBlockNumber <= 144 )
              => /\ ~Delivered("SyncStarted", events')
                 /\ ~Delivered("SyncStopped", events')]_vars

\* C19 witness: a scan of a window exactly 144 blocks wide is in progress;
\* it is not a full scan and starting it delivered nothing.
C19_Witness ==
    /\ IsClient
    /\ mgr.scanState.requestId # 0
    /\ mgr.scanState.endBlockNumber - mgr.scanState.begBlockNumber = 144
    /\ mgr.scanState.isFullScan = 0
    /\ events = <<>>
    /\ \E t \in BagToSet(th) : t.pc = "getTransactions" /\ t.rid = mgr.scanState.requestId

\* the wallet's first unused address, of either chain, is not the one the
\* scan recorded last
FirstUnusedMoved ==
    \E chain \in {"external", "internal"} :
        <<chain, UsedCount(wallet, chain, 0), "native">>
            # (IF chain = "external" THEN mgr.scanState.lastExternalAddress
                                     ELSE mgr.scanState.lastInternalAddress)

\* C20: when a successful announceGetTransactionsDone is accepted for the
\* scan in progress of a client manager and the wallet's first unused
\* address has moved, the scan stays in progress with its request id and
\* window, syncedBlockHeight is unchanged, no SyncStopped is delivered and
\* the thread then calls getTransactions again with the same request id and
\* window; the scan completes on a successful Done only when the addresses
\* have not moved.
C20_GapLimitReissue ==
    [][IsClient =>
        /\ \A t \in ThreadStates, rid \in Rids :
              ( /\ BRClientSyncManagerAnnounceGetTransactionsDone(t, rid, TRUE)
                /\ rid = mgr.scanState.requestId
                /\ rid # 0
                /\ mgr.isConnected # 0 )
              => IF FirstUnusedMoved
                 THEN /\ mgr'.scanState.requestId = rid
                      /\ mgr'.scanState.begBlockNumber = mgr.scanState.begBlockNumber
                      /\ mgr'.scanState.endBlockNumber = mgr.scanState.endBlockNumber
                      /\ mgr'.scanState.isFullScan = mgr.scanState.isFullScan
                      /\ mgr'.syncedBlockHeight = mgr.syncedBlockHeight
                      /\ mgr'.requestIdGenerator = mgr.requestIdGenerator
                      /\ events' = <<>>
                      /\ calls' = <<>>
                      /\ \E t2 \in BagToSet(th') :
                            /\ th' = ThreadsAfter(t, t2)
                            /\ t2.pc = "getTransactions"
                            /\ t2.value = 1
                            /\ t2.rid = rid
                            /\ t2.beg = mgr.scanState.begBlockNumber
                            /\ t2.end = mgr.scanState.endBlockNumber
                            /\ t2.addrs # {}
                            /\ t2.addrs \cap mgr.scanState.knownAddresses = {}
                 ELSE /\ mgr'.scanState.requestId = 0
                      /\ mgr'.syncedBlockHeight = mgr.scanState.endBlockNumber - 1
                      /\ th' = ThreadsAfter(t, ThreadIdle)
        /\ \A t \in BagToSet(th) :
              (t.pc = "getTransactions" /\ t.value = 1 /\ Leaves(t)) =>
                  /\ calls' = << ClientCall("getTransactions", "AnnounceGetTransactionsDone",
                                            t.rid, t.beg, t.end, t.addrs, 0) >>
                  /\ events' = <<>>
                  /\ mgr' = mgr]_vars

\* C20 witness: the scan's request was answered with a transaction that
\* moved the first unused address, Done was accepted, and the client was
\* asked again with the id and window of the scan still in progress.
C20_Witness ==
    /\ IsClient
    /\ nthreads = 1
    /\ Len(calls) = 1
    /\ calls[1].func = "getTransactions"
    /\ calls[1].origin = "AnnounceGetTransactionsDone"
    /\ calls[1].rid = mgr.scanState.requestId
    /\ calls[1].beg = mgr.scanState.begBlockNumber
    /\ calls[1].end = mgr.scanState.endBlockNumber
    /\ mgr.syncedBlockHeight = mgr.initBlockHeight
    /\ mgr.isConnected # 0
    /\ DOMAIN wallet # {}

\* announceGetTransactionsDone (rid, failure) is accepted for the scan in
\* progress
FailedDoneAccepted(t, rid) ==
    /\ BRClientSyncManagerAnnounceGetTransactionsDone(t, rid, FALSE)
    /\ rid = mgr.scanState.requestId
    /\ rid # 0
    /\ mgr.isConnected # 0

\* what an accepted failure does in its step: SyncStopped {-1} exactly for
\* a full scan, the scan state wiped, the heights, the connection and the
\* generator as they were, no callback and nothing left for the thread to do
FailedDoneEffect(t) ==
    /\ events' = IF mgr.scanState.isFullScan # 0 THEN <<SyncStoppedEvent(-1)>> ELSE <<>>
    /\ mgr'.scanState.requestId = 0
    /\ mgr'.scanState.isFullScan = 0
    /\ mgr'.scanState.begBlockNumber = 0
    /\ mgr'.scanState.endBlockNumber = 0
    /\ mgr'.scanState.knownAddresses = {}
    /\ mgr'.syncedBlockHeight = mgr.syncedBlockHeight
    /\ mgr'.networkBlockHeight = mgr.networkBlockHeight
    /\ mgr'.isConnected = mgr.isConnected
    /\ mgr'.requestIdGenerator = mgr.requestIdGenerator
    /\ wallet' = wallet
    /\ calls' = <<>>
    /\ th' = ThreadsAfter(t, ThreadIdle)

\* where the window of the scan begins that a tickTock starts from the
\* state the step leaves
NextWindowBegin ==
    ScanWindowBeg(mgr'.syncedBlockHeight,
                  ScanWindowEnd(mgr'.syncedBlockHeight, mgr'.networkBlockHeight))

\* C21 as stated: an accepted failure delivers SyncStopped {-1} exactly for
\* a full scan, wipes the scan state, leaves the heights and the connection
\* and retries nothing; the scan a following tickTock starts has a greater
\* request id and a window that begins at the failed scan's beginning or
\* below it.
C21_RescanBeginsNoHigher ==
    [][IsClient =>
        \A t \in ThreadStates, rid \in Rids :
            FailedDoneAccepted(t, rid) =>
                /\ FailedDoneEffect(t)
                /\ mgr'.requestIdGenerator + 1 > rid
                /\ NextWindowBegin <= mgr.scanState.begBlockNumber]_vars

\* C21 amended: an accepted failure delivers SyncStopped {-1} exactly for a
\* full scan, wipes the scan state, leaves the heights and the connection
\* and retries nothing; tickTock on a connected manager takes a fresh
\* request id, and the scan that then starts has a request id greater than
\* the failed scan's and a window that begins at or below
\* syncedBlockHeight: at the failed scan's beginning when the network
\* height is the one that scan started with, and possibly above it (never
\* above syncedBlockHeight) when the network height has grown.
C21_FailedDone ==
    [][IsClient =>
        /\ \A t \in ThreadStates, rid \in Rids :
              FailedDoneAccepted(t, rid) =>
                  /\ FailedDoneEffect(t)
                  /\ mgr'.requestIdGenerator + 1 > rid
                  /\ NextWindowBegin <= mgr.syncedBlockHeight
                  /\ mgr.scanState.begBlockNumber <= mgr.syncedBlockHeight
                  /\ mgr.scanState.endBlockNumber
                        = WindowEnd(mgr.syncedBlockHeight, mgr.networkBlockHeight)
                     => NextWindowBegin = mgr.scanState.begBlockNumber
        /\ \A t \in ThreadStates :
              (BRClientSyncManagerTickTock(t) /\ mgr.isConnected # 0) =>
                  /\ mgr'.requestIdGenerator = mgr.requestIdGenerator + 1
                  /\ th' = ThreadsAfter(t, [ThreadAt("getBlockNumber") EXCEPT
                                               !.rid = mgr.requestIdGenerator + 1])
        /\ \A t \in ThreadStates :
              ( /\ BRClientSyncManagerUpdateTransactions(t)
                /\ mgr.isConnected # 0
                /\ mgr.scanState.requestId = 0 )
              => /\ mgr'.scanState.requestId = mgr.requestIdGenerator + 1
                 /\ mgr'.scanState.begBlockNumber <= mgr.syncedBlockHeight
                 /\ mgr'.scanState.begBlockNumber
                       = ScanWindowBeg(mgr.syncedBlockHeight,
                                       ScanWindowEnd(mgr.syncedBlockHeight,
                                                     mgr.networkBlockHeight))]_vars

\* C21 witness: a full scan of a connected manager has failed: only
\* SyncStopped {-1} was delivered, the scan state is wiped, the manager is
\* still connected and no thread is left to retry.
C21_Witness ==
    /\ IsClient
    /\ nthreads = 1
    /\ events = <<SyncStoppedEvent(-1)>>
    /\ mgr.isConnected # 0
    /\ mgr.scanState.requestId = 0
    /\ mgr.networkBlockHeight > mgr.syncedBlockHeight
    /\ calls = <<>>
    /\ th = EmptyBag

\* C22: in client mode, when the manager is not destroyed, threads run, the
\* indexer answers every getTransactions request with a Done of the same
\* request id and the wallet's first unused addresses stop moving, every
\* SyncStarted delivered is followed by a SyncStopped.
C22_SyncStartedLeadsToSyncStopped ==
    Delivered("SyncStarted", events) ~> Delivered("SyncStopped", events)

\* C22 witness: a full scan during which the wallet took a transaction has
\* completed: SyncStopped {0} is delivered and the manager has synced up to
\* the network height.
C22_Witness ==
    /\ IsClient
    /\ events = <<SyncStoppedEvent(0)>>
    /\ DOMAIN wallet # {}
    /\ mgr.isConnected # 0
    /\ mgr.syncedBlockHeight = mgr.networkBlockHeight

\* the events a step delivered, without those of the kinds given
RECURSIVE Without(_, _)
Without(kinds, evs) ==
    IF evs = <<>> THEN <<>>
    ELSE IF Head(evs).kind \in kinds THEN Without(kinds, Tail(evs))
    ELSE <<Head(evs)>> \o Without(kinds, Tail(evs))

\* C23: in P2P mode, txStatusUpdate that finds the peer manager disconnected
\* while the manager is connected and in a full scan delivers SyncStopped
\* with reason -1 and then Disconnected, and clears both flags; every
\* txStatusUpdate delivers TxnsUpdated.
C23_TxStatusUpdateStopsSyncWithError ==
    [][IsPeer =>
        \A isConnected \in {0, 1}, blockHeight \in ReportedHeights :
            PeerTxStatusUpdate(isConnected, blockHeight) =>
                /\ Delivered("TxnsUpdated", events')
                /\ (isConnected = 0 /\ mgr.isConnected # 0 /\ mgr.isFullScan # 0)
                   => /\ Without({"BlockHeightUpdated", "TxnsUpdated"}, events')
                           = <<SyncStoppedEvent(-1), DisconnectedEvent>>
                      /\ mgr'.isConnected = 0
                      /\ mgr'.isFullScan = 0]_vars

\* the number of events a step delivered when the conditions given hold
CountOf(conditions) == Cardinality({c \in DOMAIN conditions : conditions[c]})

\* C24: in P2P mode the syncStarted callback delivers Connected exactly
\* when the manager was not connected, SyncStopped {-1} exactly when a full
\* scan was marked, and always SyncStarted, as the last event and with no
\* other event; afterwards the manager is connected and in a full scan.
C24_PeerSyncStarted ==
    [][IsPeer =>
        (PeerSyncStarted =>
            /\ Delivered("Connected", events') <=> mgr.isConnected = 0
            /\ Delivered("SyncStopped", events') <=> mgr.isFullScan # 0
            /\ \A i \in 1 .. Len(events') :
                  events'[i].kind = "SyncStopped" => events'[i] = SyncStoppedEvent(-1)
            /\ Len(events') = 1 + CountOf(<<mgr.isConnected = 0, mgr.isFullScan # 0>>)
            /\ events'[Len(events')] = SyncStartedEvent
            /\ mgr'.isConnected # 0
            /\ mgr'.isFullScan # 0
            /\ mgr'.networkBlockHeight = mgr.networkBlockHeight)]_vars

\* C24 witness: syncStarted came to a connected manager in a full scan: that
\* scan was stopped with -1 and a new one started, the connection not
\* being signalled again.
C24_Witness ==
    /\ IsPeer
    /\ events = <<SyncStoppedEvent(-1), SyncStartedEvent>>
    /\ mgr.isConnected # 0
    /\ mgr.isFullScan # 0

\* C25: in P2P mode the syncStopped (reason) callback delivers SyncStopped
\* {reason} exactly when a full scan was marked, and clears the mark;
\* delivers Disconnected exactly when the manager was connected and the
\* peer manager tells it is disconnected; SyncStopped comes before
\* Disconnected when both are delivered, and nothing else is delivered.
C25_PeerSyncStopped ==
    [][IsPeer =>
        \A reason \in Reasons, isConnected \in {0, 1} :
            PeerSyncStopped(reason, isConnected) =>
                LET stop == mgr.isFullScan # 0
                    drop == mgr.isConnected # 0 /\ isConnected = 0
                IN  /\ Delivered("SyncStopped", events') <=> stop
                    /\ Delivered("Disconnected", events') <=> drop
                    /\ Len(events') = CountOf(<<stop, drop>>)
                    /\ stop => events'[1] = SyncStoppedEvent(reason)
                    /\ drop => events'[Len(events')] = DisconnectedEvent
                    /\ (~stop /\ ~drop) => events' = <<>>
                    /\ mgr'.isFullScan = 0
                    /\ drop => mgr'.isConnected = 0
                    /\ mgr'.networkBlockHeight = mgr.networkBlockHeight]_vars

\* C25 witness: syncStopped (0) came to a connected manager in a full scan
\* while the peer manager was disconnected: SyncStopped {0}, then
\* Disconnected, and both flags are clear.
C25_Witness ==
    /\ IsPeer
    /\ events = <<SyncStoppedEvent(0), DisconnectedEvent>>
    /\ mgr.isConnected = 0
    /\ mgr.isFullScan = 0

\* C26: in P2P mode tickTock, and the tickTock that p2pFullScanReport calls
\* only when the manager is in a full scan, delivers SyncProgress only when
\* the manager is connected and in a full scan and the progress sampled is
\* above 0 and below 100, and otherwise delivers nothing; it changes no
\* state.  On a client manager p2pFullScanReport does nothing.
C26_SyncProgress ==
    [][/\ \A t \in ThreadStates, p \in Progresses :
             (BRPeerSyncManagerTickTock(t, p) \/ FullScanReportTickTock(t, p)) =>
                 /\ events' = IF /\ mgr.isConnected # 0 /\ mgr.isFullScan # 0
                                 /\ 0 < p /\ p < 100
                              THEN << Event("SyncProgress", p, 0, TRUE) >>
                              ELSE <<>>
                 /\ mgr' = mgr /\ wallet' = wallet /\ calls' = <<>>
                 /\ th' = ThreadsAfter(t, ThreadIdle)
       /\ \A t \in ThreadStates :
             BRSyncManagerP2PFullScanReport(t) =>
                 /\ Quiet
                 /\ th' = IF mgr.isFullScan # 0
                          THEN ThreadsAfter(t, ThreadAt("tickTock"))
                          ELSE th
       /\ \A t \in ThreadStates :
             ClientP2PFullScanReport(t) => Ignored
       /\ Delivered("SyncProgress", events')
             => IsPeer /\ mgr.isConnected # 0 /\ mgr.isFullScan # 0]_vars

\* C26 witness: a tickTock that sampled 50 percent on a connected P2P
\* manager in a full scan has delivered SyncProgress {50}.
C26_Witness ==
    /\ IsPeer
    /\ events = << Event("SyncProgress", 50, 0, TRUE) >>
    /\ mgr.isConnected # 0
    /\ mgr.isFullScan # 0

\* scenario S1, where the host only connects: a manager with
\* initBlockHeight 100 was connected, has taken no request id beyond those
\* of one connect, knows the network height 244 and has just asked the
\* client for the transactions of the scan that it started knowing that
\* height
S1Requested ==
    /\ IsClient
    /\ mgr.initBlockHeight = 100
    /\ mgr.networkBlockHeight = 244
    /\ mgr.isConnected # 0
    /\ mgr.requestIdGenerator <= 2
    /\ Len(calls) = 1
    /\ calls[1].func = "getTransactions"
    /\ calls[1].origin = "UpdateTransactions"
    /\ calls[1].rid = mgr.scanState.requestId
    /\ calls[1].end = 245

\* what S1 expects at the request: Connected, BlockHeightUpdated {244} and
\* SyncStarted have been delivered and the window [100, 245) is asked for
\* with the request id given
S1Expected(rid) ==
    /\ sink = [conn |-> "Connected", syncing |-> 1, height |-> 244]
    /\ mgr.scanState.isFullScan # 0
    /\ calls[1].beg = 100
    /\ calls[1].end = 245
    /\ calls[1].rid = rid

\* what S1 expects of the reply: a successful Done for the scan, the
\* wallet's addresses not having moved, delivers SyncStopped {0}, and
\* getBlockHeight, which reads networkBlockHeight, gives 244
S1Completes ==
    \A t \in ThreadStates, rid \in Rids :
        ( /\ BRClientSyncManagerAnnounceGetTransactionsDone(t, rid, TRUE)
          /\ rid = mgr.scanState.requestId
          /\ rid # 0
          /\ mgr.isConnected # 0
          /\ mgr.scanState.begBlockNumber = 100
          /\ mgr.scanState.endBlockNumber = 245
          /\ mgr.networkBlockHeight = 244
          /\ ~FirstUnusedMoved )
        => /\ events' = <<SyncStoppedEvent(0)>>
           /\ mgr'.networkBlockHeight = 244
           /\ mgr'.syncedBlockHeight = 244
           /\ mgr'.scanState.requestId = 0

\* C27 as stated: in scenario S1 the manager delivers Connected,
\* BlockHeightUpdated {244} and SyncStarted and asks for the window
\* [100, 245) with request id 1; a successful Done with no new addresses
\* then delivers SyncStopped {0} and getBlockHeight gives 244.
C27_ScenarioS1 ==
    [][(S1Requested' => S1Expected(1)') /\ S1Completes]_vars

\* C27 amended: as stated, but the window [100, 245) is asked for with
\* request id 2: connect takes request id 1 for getBlockNumber before it
\* starts the scan.
C27_ScenarioS1RequestIdTwo ==
    [][(S1Requested' => S1Expected(2)') /\ S1Completes]_vars

\* C27 witness: scenario S1 has run to its end: the scan up to 244 has
\* completed with SyncStopped {0}, the request ids 1 and 2 are the only
\* ones taken and both reached the indexer.
C27_Witness ==
    /\ IsClient
    /\ events = <<SyncStoppedEvent(0)>>
    /\ sink = [conn |-> "Connected", syncing |-> 0, height |-> 244]
    /\ mgr.initBlockHeight = 100
    /\ mgr.syncedBlockHeight = 244
    /\ mgr.networkBlockHeight = 244
    /\ mgr.requestIdGenerator = 2
    /\ indexer.rids = {1, 2}

\* the wallet, holding the transaction in the block and at the time given
WalletHolding(w, tx, blockHeight, timestamp) ==
    [h \in (DOMAIN w) \cup {tx} |->
        IF h = tx THEN [blockHeight |-> blockHeight, timestamp |-> timestamp] ELSE w[h]]

NoTransitionEvents ==
    {"TxnSubmitted", "TxnsUpdated", "SetBlocks", "AddBlocks", "SetPeers", "AddPeers"}

\* the events that tell a change of the manager's state
TransitionEvents ==
    {"Connected", "Disconnected", "SyncStarted", "SyncStopped",
     "BlockHeightUpdated", "SyncProgress"}

\* C29: in both modes TxnSubmitted, TxnsUpdated, SetBlocks, AddBlocks,
\* SetPeers and AddPeers are delivered while the thread that delivers them
\* does not hold the manager's lock.
C29_NoTransitionEventsOutsideLock ==
    [][\A i \in 1 .. Len(events') :
          events'[i].kind \in NoTransitionEvents => ~events'[i].locked]_vars

\* a full scan is marked in the manager
InFullScan(m) ==
    IF m.mode = SYNC_MODE_BRD_ONLY THEN m.scanState.isFullScan # 0 ELSE m.isFullScan # 0

\* C30: in both modes and under any interleaving, Connected, Disconnected,
\* SyncStarted, SyncStopped, BlockHeightUpdated and SyncProgress are
\* delivered with the manager's lock held, in the lock region that makes
\* the change they tell, so that what the sink has seen last agrees with
\* the manager's state when the region ends; getBlockNumber,
\* getTransactions and submitTransaction are invoked outside every lock
\* region: the step that invokes one delivers no such event and changes
\* nothing in the manager.
C30_TransitionEventsUnderLock ==
    [][/\ \A i \in 1 .. Len(events') :
             events'[i].kind \in TransitionEvents => events'[i].locked
       /\ (Delivered("Connected", events') \/ Delivered("Disconnected", events'))
             => (sink'.conn = "Connected" <=> mgr'.isConnected # 0)
       /\ (Delivered("SyncStarted", events') \/ Delivered("SyncStopped", events'))
             => (sink'.syncing = 1 <=> InFullScan(mgr'))
       /\ Delivered("BlockHeightUpdated", events')
             => sink'.height = mgr'.networkBlockHeight
       /\ calls' # <<>>
             => /\ Len(calls') = 1
                /\ calls'[1].func \in {"getBlockNumber", "getTransactions", "submitTransaction"}
                /\ mgr' = mgr
                /\ \A i \in 1 .. Len(events') : ~events'[i].locked]_vars

\* C30 witness: while one thread was between the lock region that started
\* its full scan and the getTransactions call, another thread's scanToDepth
\* delivered SyncStopped {-1}, Disconnected and Connected in one lock region.
C30_Witness ==
    /\ IsClient
    /\ events = <<SyncStoppedEvent(-1), DisconnectedEvent, ConnectedEvent>>
    /\ \E t \in BagToSet(th) : t.pc = "getTransactions" /\ t.value = 0
    /\ sink.conn = "Connected"
    /\ sink.syncing = 0

\* the heights of the wallet's transactions that are valid, sent a non-zero
\* amount, are confirmed and lie at or below lastBlockHeight less
\* CONFIRMATION_BLOCK_COUNT
SendHeightsAtLeastSixDeep(w, lastBlockHeight) ==
    { w[h].blockHeight :
        h \in { x \in DOMAIN w :
                  /\ BRWalletTransactionIsValid(x)
                  /\ BRWalletAmountSentByTx(x) # 0
                  /\ w[x].blockHeight # TX_UNCONFIRMED
                  /\ w[x].blockHeight <= lastBlockHeight - CONFIRMATION_BLOCK_COUNT } }

\* C31: the height of the last confirmed send that scanToDepth Low computes
\* on a connected client manager is the greatest height among the wallet's
\* valid, confirmed sends of a non-zero amount at or below lastBlockHeight
\* - 6, and 0 when there is none, when the wallet is empty or when
\* lastBlockHeight < 6.  (The code leaves out a send at exactly
\* lastBlockHeight - 6: with a send at 200 and the network at 206 it
\* computes 0.)
C31_LastConfirmedSendHeight ==
    [][IsClient =>
        \A t \in ThreadStates :
            (BRClientSyncManagerScanToDepth(t, "LOW") /\ mgr.isConnected # 0) =>
                LET lastBlockHeight == mgr.networkBlockHeight % UINT32_SPAN
                IN  GetLastConfirmedSendTxHeight(wallet, lastBlockHeight) =
                        IF lastBlockHeight < CONFIRMATION_BLOCK_COUNT \/ DOMAIN wallet = {}
                        THEN 0
                        ELSE MaxOf(SendHeightsAtLeastSixDeep(wallet, lastBlockHeight))]_vars

\* C32: on a client manager with no scan in progress (scanState.requestId
\* = 0), connected or not, announceGetTransactionsDone and
\* announceGetTransactionsItem are dropped for every rid, 0 included: the
\* manager (syncedBlockHeight, scan state) and the wallet are unchanged, no
\* event is delivered, no getTransactions is issued and no registration is
\* left to do.  (The code compares rid with the wiped scan state's
\* requestId, which is 0, so rid 0 is taken as the answer of a scan.)
C32_IdleDropsTransactionAnnouncements ==
    [][(IsClient /\ mgr.scanState.requestId = 0) =>
        \A t \in ThreadStates, rid \in Rids :
            /\ \A success \in BOOLEAN :
                  BRClientSyncManagerAnnounceGetTransactionsDone(t, rid, success) => Ignored
            /\ \A i \in AnnouncedItems :
                  BRClientSyncManagerAnnounceGetTransactionsItem(
                      t, rid, i.tx, i.timestamp, i.blockHeight) => Ignored]_vars

\* Connect, disconnect and scanToDepth assign isConnected before they call
\* the event callback, inside one locked region, so the flag the sink would
\* read while an event of a step is delivered is the flag after the step.

\* C33 (as stated): on a client manager, when a Connected event is
\* delivered isConnected is 1 and when a Disconnected event is delivered
\* isConnected is 0, for every operation, scanToDepth included.
C33_FlagAgreesWithEachConnectionEvent ==
    [][IsClient =>
        \A i \in 1 .. Len(events') :
            /\ events'[i].kind = "Connected" => mgr'.isConnected = 1
            /\ events'[i].kind = "Disconnected" => mgr'.isConnected = 0]_vars

\* C33 (amended): on a client manager, when a Connected event is delivered
\* isConnected is 1; when a Disconnected event is delivered isConnected is
\* 0, except in scanToDepth on a connected manager, which delivers
\* Disconnected immediately followed by Connected while isConnected stays 1
\* throughout.
C33_FlagAgreesExceptInScanToDepth ==
    [][IsClient =>
        \A i \in 1 .. Len(events') :
            /\ events'[i].kind = "Connected" => mgr'.isConnected = 1
            /\ events'[i].kind = "Disconnected" =>
                  \/ mgr'.isConnected = 0
                  \/ /\ \E t \in ThreadStates, depth \in SyncDepths :
                            BRClientSyncManagerScanToDepth(t, depth)
                     /\ mgr.isConnected = 1
                     /\ mgr'.isConnected = 1
                     /\ i < Len(events')
                     /\ events'[i + 1].kind = "Connected"]_vars

\* scanToDepth has delivered Disconnected and Connected, no full scan having
\* been in progress, and the manager is connected
C33_Witness ==
    /\ IsClient
    /\ events = <<DisconnectedEvent, ConnectedEvent>>
    /\ mgr.isConnected = 1
    /\ mgr.scanState.requestId = 0

\* C34: on a client manager called by several threads, a thread that comes
\* to update the transactions while a scan is in progress creates nothing
\* (the manager is unchanged, nothing is delivered or called); no step
\* replaces a scan in progress by another; a step that creates a scan
\* does so on a connected manager, gives it an id above every id handed out
\* before (so no thread in flight and no call that reached the indexer
\* carries it), and delivers SyncStarted once if the scan is a full scan and
\* not at all otherwise; and SyncStarted is delivered by no other step.
C34_OneThreadCreatesTheScan ==
    [][IsClient =>
        LET started == Cardinality({ i \in 1 .. Len(events') : events'[i].kind = "SyncStarted" })
        IN  /\ \A t \in BagToSet(th) :
                  ( /\ t.pc = "updateTransactions"
                    /\ Leaves(t)
                    /\ mgr.scanState.requestId # 0 )
                  => /\ mgr' = mgr
                     /\ events' = <<>>
                     /\ calls' = <<>>
            /\ (mgr.scanState.requestId # 0 /\ mgr'.scanState.requestId # 0)
                  => /\ mgr'.scanState.requestId = mgr.scanState.requestId
                     /\ started = 0
            /\ (mgr.scanState.requestId = 0 /\ mgr'.scanState.requestId # 0)
                  => /\ mgr.isConnected # 0
                     /\ mgr'.scanState.requestId > mgr.requestIdGenerator
                     /\ mgr'.scanState.requestId = mgr'.requestIdGenerator
                     /\ \A u \in BagToSet(th) : u.rid < mgr'.scanState.requestId
                     /\ mgr'.scanState.requestId \notin indexer.rids
                     /\ started = mgr'.scanState.isFullScan
            /\ started > 0
                  => /\ started = 1
                     /\ mgr.scanState.requestId = 0
                     /\ mgr'.scanState.requestId # 0]_vars

\* two threads are inside the manager: one created the scan in progress and
\* is about to request its transactions, the other comes to update the
\* transactions and finds the scan
C34_Witness ==
    /\ IsClient
    /\ nthreads = 2
    /\ mgr.scanState.requestId # 0
    /\ \E u, v \in BagToSet(th) :
          /\ u.pc = "getTransactions"
          /\ u.rid = mgr.scanState.requestId
          /\ v.pc = "updateTransactions"

\* C35 (as stated): on a client manager called by several threads, every
\* getTransactions call that reaches the indexer carries the request id of
\* the scan in progress at the moment of the call, and none is made while
\* the manager is disconnected or for a scan that has been cancelled.
C35_GetTransactionsForScanInProgress ==
    [][IsClient =>
        \A i \in 1 .. Len(calls') :
            calls'[i].func = "getTransactions" =>
                /\ mgr'.isConnected # 0
                /\ mgr'.scanState.requestId # 0
                /\ calls'[i].rid = mgr'.scanState.requestId]_vars

\* C35 (amended): a thread that is to call getTransactions stores, while it
\* holds the lock, the id and the window of the scan then in progress on a
\* connected manager; it makes the call after it released the lock, with
\* what it stored and without touching the manager, whatever disconnect or
\* scanToDepth did in between, so the call can reach the indexer while the
\* manager is disconnected or for a cancelled scan.
C35_GetTransactionsAsStoredUnderLock ==
    [][IsClient =>
        /\ \A u \in BagToSet(th') :
              (u.pc = "getTransactions" /\ CopiesIn(u, th') > CopiesIn(u, th))
              => /\ mgr'.isConnected # 0
                 /\ u.rid # 0
                 /\ u.rid = mgr'.scanState.requestId
                 /\ u.beg = mgr'.scanState.begBlockNumber
                 /\ u.end = mgr'.scanState.endBlockNumber
                 /\ calls' = <<>>
        /\ \A i \in 1 .. Len(calls') :
              calls'[i].func = "getTransactions" =>
                  /\ mgr' = mgr
                  /\ \E t \in BagToSet(th) :
                        /\ t.pc = "getTransactions"
                        /\ Leaves(t)
                        /\ calls'[i].rid = t.rid
                        /\ calls'[i].beg = t.beg
                        /\ calls'[i].end = t.end]_vars

\* getTransactions has just reached the indexer for a scan that a
\* disconnect cancelled: the manager is not connected and holds no scan
C35_Witness ==
    /\ IsClient
    /\ Len(calls) = 1
    /\ calls[1].func = "getTransactions"
    /\ calls[1].rid # 0
    /\ mgr.isConnected = 0
    /\ mgr.scanState.requestId = 0

\* C36: in P2P mode the manager is marked as in a full scan only while it
\* is marked as connected, before and after every step, so no invocation of
\* the syncStarted callback delivers both SyncStopped and Connected.
C36_PeerFullScanImpliesConnected ==
    [][IsPeer =>
        /\ mgr.isFullScan # 0 => mgr.isConnected # 0
        /\ mgr'.isFullScan # 0 => mgr'.isConnected # 0
        /\ PeerSyncStarted =>
              ~(Delivered("SyncStopped", events') /\ Delivered("Connected", events'))]_vars

\* the syncStarted callback found the manager disconnected: it has
\* delivered Connected and SyncStarted and marked the full scan
C36_Witness ==
    /\ IsPeer
    /\ events = <<ConnectedEvent, SyncStartedEvent>>
    /\ mgr.isFullScan # 0
    /\ mgr.isConnected # 0

\* C37: on a client manager every scan that updateTransactions creates has
\* a window with end > beg, and the assertion of the scan state's
\* initialisation does not fail, whatever height the indexer announced,
\* the greatest 64 bit height included, and whatever scanToDepth made of
\* syncedBlockHeight.  (At the greatest height MAX (synced, network) + 1
\* wraps to 0, the window is [0, 0) and the assertion fails.)
C37_ScanWindowNeverEmpty ==
    [][IsClient =>
        \A t \in ThreadStates :
            ( /\ BRClientSyncManagerUpdateTransactions(t)
              /\ mgr.scanState.requestId = 0
              /\ mgr.isConnected # 0 )
            => /\ ~mgr'.aborted
               /\ mgr'.scanState.requestId # 0
               /\ mgr'.scanState.endBlockNumber > mgr'.scanState.begBlockNumber]_vars

\* the height of the latest checkpoint whose time is at most the timestamp;
\* the chain begins at height 0 where there is none
CheckpointHeightAtOrBefore(timestamp) ==
    MaxOf({ CheckPoints[i].height :
              i \in { j \in DOMAIN CheckPoints : CheckPoints[j].timestamp <= timestamp } })

\* C38: whatever earliestKeyTime a client manager was constructed with,
\* values below one week included, its initBlockHeight is at most the
\* height of the latest checkpoint whose time is at most earliestKeyTime.
\* (For a key time below one week the subtraction wraps and the constructor
\* takes the last checkpoint of the table.)
C38_InitBlockHeightIsLowerBound ==
    IsClient =>
        \A in \in EdgeConstructorInputs :
            mgr.initBlockHeight = BRClientSyncManagerNew(in[1], in[2]).initBlockHeight
            => mgr.initBlockHeight <= CheckpointHeightAtOrBefore(in[1])

\* the wallet's addresses, native and legacy-encoded, that the set lacks
AddressesNotIn(known, w) ==
    { a \in BRWalletAllAddrs(w) \cup { <<b[1], b[2], "legacy">> : b \in BRWalletAllAddrs(w) } :
        a \notin known }

\* C39: on a client manager, while a scan stays in progress its
\* knownAddresses only grows; a scan starts with the wallet's addresses in
\* both forms, which its first getTransactions carries; a re-issue carries
\* exactly the wallet's addresses, in both forms, that knownAddresses did
\* not hold before it, and these are added to knownAddresses in the same
\* step, so that no later re-issue of the scan carries them again.
C39_KnownAddressesGrow ==
    [][IsClient =>
        /\ (mgr.scanState.requestId # 0 /\ mgr'.scanState.requestId = mgr.scanState.requestId)
              => mgr.scanState.knownAddresses \subseteq mgr'.scanState.knownAddresses
        /\ \A u \in BagToSet(th') :
              (u.pc = "getTransactions" /\ CopiesIn(u, th') > CopiesIn(u, th))
              => IF u.value = 1
                 THEN /\ u.addrs = AddressesNotIn(mgr.scanState.knownAddresses, wallet)
                      /\ u.addrs # {}
                      /\ u.addrs \cap mgr.scanState.knownAddresses = {}
                      /\ mgr'.scanState.knownAddresses
                            = mgr.scanState.knownAddresses \cup u.addrs
                 ELSE /\ u.addrs = AddressesNotIn({}, wallet)
                      /\ mgr'.scanState.knownAddresses = u.addrs
        /\ \A i \in 1 .. Len(calls') :
              calls'[i].func = "getTransactions" =>
                  \E t \in BagToSet(th) :
                      /\ t.pc = "getTransactions"
                      /\ Leaves(t)
                      /\ calls'[i].addrs = t.addrs]_vars

\* a re-issue is about to be called with addresses that the scan did not
\* hold before and holds now, next to those it started with
C39_Witness ==
    /\ IsClient
    /\ mgr.scanState.requestId # 0
    /\ \E u \in BagToSet(th) :
          /\ u.pc = "getTransactions"
          /\ u.value = 1
          /\ u.rid = mgr.scanState.requestId
          /\ u.addrs # {}
          /\ u.addrs \subseteq mgr.scanState.knownAddresses
          /\ u.addrs # mgr.scanState.knownAddresses

\* C40: in the blockchain-DB API client every response and every failure
\* that the data task hands to the callback of a request results in exactly
\* one call on the completion handler of the request, handleData or
\* handleError, and handleData is called with more = false whatever
\* page.total_pages is.  (A response with code 200 whose body cannot be
\* read results in no call: the IOException leaves onResponse.)
C40_ExactlyOneCompletionCall ==
    \A r \in DOMAIN bdb.requests :
        bdb.requests[r].answered =>
            /\ Len(bdb.requests[r].completion) = 1
            /\ bdb.requests[r].completion[1].func \in {"handleData", "handleError"}
            /\ bdb.requests[r].completion[1].func = "handleData"
                  => bdb.requests[r].completion[1].more = FALSE

====
